---- MODULE Spec2Model ----
(***************************************************************************)
(* A model of the snarkVM program data model (vm/compiler/src/program)     *)
(* and of the stack that evaluates / executes its functions.               *)
(*                                                                         *)
(* Spec      : a Program built through add_import, add_interface,          *)
(*             add_record, add_closure and add_function.                   *)
(* SpecStack : a Stack bound to a fixed Program, running evaluate and      *)
(*             execute one step at a time.                                 *)
(***************************************************************************)
EXTENDS Integers, Sequences, FiniteSets, TLC

VARIABLES imports, identifiers, interfaces, records, closures, functions, last,
          frames, outcome, runs

progVars == <<imports, identifiers, interfaces, records, closures, functions>>
stackVars == <<frames, outcome, runs>>
vars == <<imports, identifiers, interfaces, records, closures, functions, last,
          frames, outcome, runs>>

(***************************************************************************)
(* Bounds of the model.                                                    *)
(***************************************************************************)
\* N::MAX_INPUTS and N::MAX_OUTPUTS: the code is generic in the network N;
\* the model instantiates them with small values.
MAX_INPUTS == 2
MAX_OUTPUTS == 3

(***************************************************************************)
(* IndexMap<K, V>: an insertion-ordered map, a sequence of entries.        *)
(***************************************************************************)
None == <<>>
Some(v) == <<v>>

Keys(m) == {m[i].key : i \in 1..Len(m)}

contains_key(m, k) == \E i \in 1..Len(m) : m[i].key = k

IndexOf(m, k) == CHOOSE i \in 1..Len(m) : m[i].key = k

get(m, k) == IF contains_key(m, k) THEN Some(m[IndexOf(m, k)].value) ELSE None

\* IndexMap::insert: an existing key keeps its position, has its value
\* replaced and the old value is returned; a new key is appended.
insert(m, k, v) ==
    IF contains_key(m, k)
    THEN [map |-> [m EXCEPT ![IndexOf(m, k)] = [key |-> k, value |-> v]],
          old |-> Some(m[IndexOf(m, k)].value)]
    ELSE [map |-> Append(m, [key |-> k, value |-> v]), old |-> None]

(***************************************************************************)
(* Reserved words.                                                         *)
(***************************************************************************)
KEYWORDS ==
    {"const", "constant", "public", "private",
     "address", "boolean", "field", "group", "i8", "i16", "i32", "i64", "i128",
     "u8", "u16", "u32", "u64", "u128", "scalar", "string",
     "true", "false",
     "input", "output", "as", "into",
     "function", "interface", "record", "closure", "program", "global",
     "return", "break", "assert", "continue", "let", "if", "else", "while",
     "for", "switch", "case", "default", "match", "enum", "struct", "union",
     "trait", "impl", "type"}

\* Instruction::OPCODES.  An opcode string is kept as the sequence of its
\* '.'-separated parts, so that split('.') is the sequence itself.
OPCODES ==
    {<<"abs">>, <<"abs", "w">>, <<"add">>, <<"add", "w">>, <<"and">>,
     <<"call">>, <<"cast">>, <<"double">>, <<"gt">>, <<"gte">>,
     <<"is", "eq">>, <<"is", "neq">>, <<"inv">>, <<"lt">>, <<"lte">>,
     <<"mul">>, <<"mul", "w">>, <<"nand">>, <<"neg">>, <<"nor">>, <<"not">>,
     <<"or">>, <<"pow">>, <<"pow", "w">>, <<"shl">>, <<"shl", "w">>,
     <<"shr">>, <<"shr", "w">>, <<"square">>, <<"sqrt">>, <<"sub">>,
     <<"sub", "w">>, <<"xor">>}

split(opcode) == opcode

is_unique_name(name) == ~contains_key(identifiers, name)

\* A variant comparing the name with the whole opcode, not with its root.
is_reserved_opcode_whole(name) == \E opcode \in OPCODES : opcode = <<name>>

is_reserved_opcode(name) == \E opcode \in OPCODES : Head(split(opcode)) = name

is_reserved_keyword(name) == \E keyword \in KEYWORDS : keyword = name

(***************************************************************************)
(* The definitions handed to the add_* operations.                         *)
(***************************************************************************)
\* Identifiers tried as names: "record" is a keyword, "is" is the root of
\* the opcodes is.eq and is.neq.
ReservedNames == {"record", "is"}
Names == {"message", "token"} \cup ReservedNames

\* PlaintextType::Literal(..) | PlaintextType::Interface(identifier), and
\* the Record(identifier) variant of RegisterType / ValueType.  The mode
\* of a function's input or output type is kept in its Statement.
Literal(t) == [tag |-> "Literal", id |-> t]
Interface(n) == [tag |-> "Interface", id |-> n]
Record(n) == [tag |-> "Record", id |-> n]

Member(id, ty) == [id |-> id, ty |-> ty]

\* The member lists that are tried: none, literal members, members naming
\* an interface (first or second in the list), a member named by the
\* keyword "type".
MemberLists ==
    {<<>>,
     <<Member("first", Literal("field"))>>,
     <<Member("first", Interface("message"))>>,
     <<Member("first", Interface("token"))>>,
     <<Member("type", Literal("field"))>>,
     <<Member("first", Literal("field")), Member("second", Interface("message"))>>,
     <<Member("first", Literal("field")), Member("type", Interface("token"))>>}

\* An interface: a name and its ordered members (identifier, plaintext
\* type).  A reserved name is tried with members that are well-formed.
InterfaceArgs ==
    [name : Names \ ReservedNames, members : MemberLists]
    \cup [name : ReservedNames, members : {<<Member("first", Literal("field"))>>}]

\* A record type: a name and its ordered entries (identifier, entry type);
\* every entry type tried is Private(plaintext type).
RecordArgs ==
    [name : Names \ ReservedNames, entries : MemberLists]
    \cup [name : ReservedNames, entries : {<<Member("first", Literal("field"))>>}]

\* An import: the program ID (name and network) of the imported program.
ImportArgs == [id : [name : {"token", "is"}, network : {"aleo"}]]

\* An input or output statement: a register, its declared type and, in a
\* function, its visibility (a closure has none: "").
Statement(register, ty, mode) == [register |-> register, ty |-> ty, mode |-> mode]

Statements(n, ty) == [i \in 1..n |-> Statement(i - 1, ty, "Private")]

\* An instruction: opcode, operand registers, destination registers and,
\* for call, the name of the callee.
Instruction(opcode, callee, operands, destinations) ==
    [opcode |-> opcode, callee |-> callee, operands |-> operands, destinations |-> destinations]

add_instruction == Instruction("add", "", <<0, 0>>, <<MAX_INPUTS + 1>>)

\* call message r0 into r1
call_instruction == Instruction("call", "message", <<0>>, <<MAX_INPUTS + 1>>)

\* The shapes of closure and function that are tried: the accepted sizes,
\* each size bound missed by one, types naming an interface or record, and
\* a body that calls the closure or function named message.
Shapes ==
    {[inputs |-> Statements(1, Literal("field")), instructions |-> <<add_instruction>>,
      outputs |-> Statements(1, Literal("field"))],
     [inputs |-> Statements(MAX_INPUTS, Literal("field")), instructions |-> <<add_instruction>>,
      outputs |-> Statements(MAX_OUTPUTS, Literal("field"))],
     [inputs |-> <<>>, instructions |-> <<add_instruction>>,
      outputs |-> Statements(1, Literal("field"))],
     [inputs |-> Statements(MAX_INPUTS + 1, Literal("field")), instructions |-> <<add_instruction>>,
      outputs |-> Statements(1, Literal("field"))],
     [inputs |-> Statements(1, Literal("field")), instructions |-> <<>>,
      outputs |-> Statements(1, Literal("field"))],
     [inputs |-> Statements(1, Literal("field")), instructions |-> <<add_instruction>>,
      outputs |-> Statements(MAX_OUTPUTS + 1, Literal("field"))],
     [inputs |-> Statements(1, Record("token")), instructions |-> <<add_instruction>>,
      outputs |-> Statements(1, Literal("field"))],
     [inputs |-> Statements(1, Literal("field")), instructions |-> <<add_instruction>>,
      outputs |-> Statements(1, Interface("message"))],
     [inputs |-> Statements(1, Literal("field")), instructions |-> <<call_instruction>>,
      outputs |-> Statements(1, Literal("field"))]}

Definition(name, shape) ==
    [name |-> name, inputs |-> shape.inputs, instructions |-> shape.instructions,
     outputs |-> shape.outputs]

\* A reserved name is tried with a shape of accepted size.
ClosureArgs ==
    {Definition(n, s) : n \in Names \ ReservedNames, s \in Shapes}
    \cup {Definition(n, [inputs |-> Statements(1, Literal("field")),
                         instructions |-> <<add_instruction>>,
                         outputs |-> Statements(1, Literal("field"))]) : n \in ReservedNames}

FunctionArgs == ClosureArgs

(***************************************************************************)
(* Program::new                                                            *)
(***************************************************************************)
NoCall == [op |-> "new", arg |-> [name |-> ""], res |-> "ok"]

new ==
    /\ imports = <<>>
    /\ identifiers = <<>>
    /\ interfaces = <<>>
    /\ records = <<>>
    /\ closures = <<>>
    /\ functions = <<>>
    /\ last = NoCall

Returned(op, arg, res) == last' = [op |-> op, arg |-> arg, res |-> res]

(***************************************************************************)
(* Program::add_import                                                     *)
(***************************************************************************)
\* The checks of add_import, in the order of the code; "ok" when all pass.
add_import_check(import) ==
    LET import_name == import.id.name IN
    IF ~is_unique_name(import_name) THEN "already in use"
    ELSE IF is_reserved_opcode(import_name) THEN "reserved opcode"
    ELSE IF is_reserved_keyword(import_name) THEN "reserved keyword"
    ELSE IF contains_key(imports, import.id) THEN "already defined"
    ELSE "ok"

\* A variant that also registers the name of the import in identifiers.
add_import_registering(import) ==
    LET check == add_import_check(import)
        r == insert(imports, import.id, import)
    IN  /\ UNCHANGED <<interfaces, records, closures, functions>>
        /\ IF check # "ok"
           THEN UNCHANGED <<imports, identifiers>> /\ Returned("add_import", import, check)
           ELSE /\ imports' = r.map
                /\ identifiers' = insert(identifiers, import.id.name, "Import").map
                /\ Returned("add_import", import,
                            IF r.old # None THEN "already exists" ELSE "ok")

add_import(import) ==
    LET check == add_import_check(import)
        r == insert(imports, import.id, import)
    IN  /\ UNCHANGED <<identifiers, interfaces, records, closures, functions>>
        /\ IF check # "ok"
           THEN UNCHANGED imports /\ Returned("add_import", import, check)
           ELSE /\ imports' = r.map
                /\ Returned("add_import", import,
                            IF r.old # None THEN "already exists" ELSE "ok")

(***************************************************************************)
(* Program::add_interface                                                  *)
(***************************************************************************)
\* The outcome of the loop over the members (or entries) `ms`: the error
\* of the first ill-formed one, "ok" when all are well-formed.
\* A variant that checks the member names only, not the member types.
members_check_names_only(ms) ==
    IF \E i \in 1..Len(ms) : is_reserved_keyword(ms[i].id) THEN "reserved keyword" ELSE "ok"

members_check(ms) ==
    LET bad(i) == \/ is_reserved_keyword(ms[i].id)
                  \/ /\ ms[i].ty.tag = "Interface"
                     /\ ~contains_key(interfaces, ms[i].ty.id)
    IN  IF \E i \in 1..Len(ms) : bad(i)
        THEN LET i == CHOOSE j \in 1..Len(ms) : bad(j) /\ \A k \in 1..(j - 1) : ~bad(k)
             IN  IF is_reserved_keyword(ms[i].id) THEN "reserved keyword" ELSE "not defined"
        ELSE "ok"

add_interface_check(interface) ==
    LET interface_name == interface.name IN
    IF ~is_unique_name(interface_name) THEN "already in use"
    ELSE IF is_reserved_opcode(interface_name) THEN "reserved opcode"
    ELSE IF is_reserved_keyword(interface_name) THEN "reserved keyword"
    ELSE IF interface.members = <<>> THEN "missing members"
    ELSE members_check(interface.members)

add_interface(interface) ==
    LET check == add_interface_check(interface)
        r1 == insert(identifiers, interface.name, "Interface")
        r2 == insert(interfaces, interface.name, interface)
    IN  /\ UNCHANGED <<imports, records, closures, functions>>
        /\ IF check # "ok"
           THEN UNCHANGED <<identifiers, interfaces>> /\ Returned("add_interface", interface, check)
           ELSE IF r1.old # None
           THEN /\ identifiers' = r1.map
                /\ UNCHANGED interfaces
                /\ Returned("add_interface", interface, "already exists")
           ELSE /\ identifiers' = r1.map
                /\ interfaces' = r2.map
                /\ Returned("add_interface", interface,
                            IF r2.old # None THEN "already exists" ELSE "ok")

(***************************************************************************)
(* Program::add_record                                                     *)
(***************************************************************************)
add_record_check(record) ==
    LET record_name == record.name IN
    IF ~(Len(records) <= 1) THEN "only one record type"
    ELSE IF ~is_unique_name(record_name) THEN "already in use"
    ELSE IF is_reserved_opcode(record_name) THEN "reserved opcode"
    ELSE IF is_reserved_keyword(record_name) THEN "reserved keyword"
    ELSE members_check(record.entries)

\* A variant that keeps a single record type by replacing the registered one.
add_record_replacing(record) ==
    LET check == add_record_check(record)
        r1 == insert(identifiers, record.name, "Record")
    IN  /\ UNCHANGED <<imports, interfaces, closures, functions>>
        /\ IF check # "ok"
           THEN UNCHANGED <<identifiers, records>> /\ Returned("add_record", record, check)
           ELSE /\ identifiers' = r1.map
                /\ records' = <<[key |-> record.name, value |-> record]>>
                /\ Returned("add_record", record,
                            IF r1.old # None THEN "already exists" ELSE "ok")

add_record(record) ==
    LET check == add_record_check(record)
        r1 == insert(identifiers, record.name, "Record")
        r2 == insert(records, record.name, record)
    IN  /\ UNCHANGED <<imports, interfaces, closures, functions>>
        /\ IF check # "ok"
           THEN UNCHANGED <<identifiers, records>> /\ Returned("add_record", record, check)
           ELSE IF r1.old # None
           THEN /\ identifiers' = r1.map
                /\ UNCHANGED records
                /\ Returned("add_record", record, "already exists")
           ELSE /\ identifiers' = r1.map
                /\ records' = r2.map
                /\ Returned("add_record", record,
                            IF r2.old # None THEN "already exists" ELSE "ok")

(***************************************************************************)
(* Program::add_closure                                                    *)
(***************************************************************************)
add_closure_check(closure) ==
    LET closure_name == closure.name IN
    IF ~is_unique_name(closure_name) THEN "already in use"
    ELSE IF is_reserved_opcode(closure_name) THEN "reserved opcode"
    ELSE IF is_reserved_keyword(closure_name) THEN "reserved keyword"
    ELSE IF closure.inputs = <<>> THEN "without input statements"
    ELSE IF ~(Len(closure.inputs) <= MAX_INPUTS) THEN "exceeds maximum number of inputs"
    ELSE IF closure.instructions = <<>> THEN "without instructions"
    ELSE IF ~(Len(closure.outputs) <= MAX_OUTPUTS) THEN "exceeds maximum number of outputs"
    ELSE "ok"

\* A variant that does not add the closure name to the identifiers.
add_closure_unregistered(closure) ==
    LET check == add_closure_check(closure)
        r2 == insert(closures, closure.name, closure)
    IN  /\ UNCHANGED <<imports, identifiers, interfaces, records, functions>>
        /\ IF check # "ok"
           THEN UNCHANGED closures /\ Returned("add_closure", closure, check)
           ELSE /\ closures' = r2.map
                /\ Returned("add_closure", closure,
                            IF r2.old # None THEN "already exists" ELSE "ok")

add_closure(closure) ==
    LET check == add_closure_check(closure)
        r1 == insert(identifiers, closure.name, "Closure")
        r2 == insert(closures, closure.name, closure)
    IN  /\ UNCHANGED <<imports, interfaces, records, functions>>
        /\ IF check # "ok"
           THEN UNCHANGED <<identifiers, closures>> /\ Returned("add_closure", closure, check)
           ELSE IF r1.old # None
           THEN /\ identifiers' = r1.map
                /\ UNCHANGED closures
                /\ Returned("add_closure", closure, "already exists")
           ELSE /\ identifiers' = r1.map
                /\ closures' = r2.map
                /\ Returned("add_closure", closure,
                            IF r2.old # None THEN "already exists" ELSE "ok")

(***************************************************************************)
(* Program::add_function                                                   *)
(***************************************************************************)
\* A variant without the check for instructions.
add_function_check_no_instructions(function) ==
    LET function_name == function.name IN
    IF ~is_unique_name(function_name) THEN "already in use"
    ELSE IF is_reserved_opcode(function_name) THEN "reserved opcode"
    ELSE IF is_reserved_keyword(function_name) THEN "reserved keyword"
    ELSE IF function.inputs = <<>> THEN "without input statements"
    ELSE IF ~(Len(function.inputs) <= MAX_INPUTS) THEN "exceeds maximum number of inputs"
    ELSE IF ~(Len(function.outputs) <= MAX_OUTPUTS) THEN "exceeds maximum number of outputs"
    ELSE "ok"

add_function_check(function) ==
    LET function_name == function.name IN
    IF ~is_unique_name(function_name) THEN "already in use"
    ELSE IF is_reserved_opcode(function_name) THEN "reserved opcode"
    ELSE IF is_reserved_keyword(function_name) THEN "reserved keyword"
    ELSE IF function.inputs = <<>> THEN "without input statements"
    ELSE IF ~(Len(function.inputs) <= MAX_INPUTS) THEN "exceeds maximum number of inputs"
    ELSE IF function.instructions = <<>> THEN "without instructions"
    ELSE IF ~(Len(function.outputs) <= MAX_OUTPUTS) THEN "exceeds maximum number of outputs"
    ELSE "ok"

\* A variant that adds the function name to the identifiers before the
\* checks on the inputs, instructions and outputs.
add_function_early_insert(function) ==
    LET function_name == function.name
        named == IF ~is_unique_name(function_name) THEN "already in use"
                 ELSE IF is_reserved_opcode(function_name) THEN "reserved opcode"
                 ELSE IF is_reserved_keyword(function_name) THEN "reserved keyword"
                 ELSE "ok"
        check == add_function_check(function)
        r1 == insert(identifiers, function.name, "Function")
        r2 == insert(functions, function.name, function)
    IN  /\ UNCHANGED <<imports, interfaces, records, closures>>
        /\ IF named # "ok"
           THEN UNCHANGED <<identifiers, functions>> /\ Returned("add_function", function, named)
           ELSE IF check # "ok"
           THEN /\ identifiers' = r1.map
                /\ UNCHANGED functions
                /\ Returned("add_function", function, check)
           ELSE /\ identifiers' = r1.map
                /\ functions' = r2.map
                /\ Returned("add_function", function, "ok")

add_function(function) ==
    LET check == add_function_check(function)
        r1 == insert(identifiers, function.name, "Function")
        r2 == insert(functions, function.name, function)
    IN  /\ UNCHANGED <<imports, interfaces, records, closures>>
        /\ IF check # "ok"
           THEN UNCHANGED <<identifiers, functions>> /\ Returned("add_function", function, check)
           ELSE IF r1.old # None
           THEN /\ identifiers' = r1.map
                /\ UNCHANGED functions
                /\ Returned("add_function", function, "already exists")
           ELSE /\ identifiers' = r1.map
                /\ functions' = r2.map
                /\ Returned("add_function", function,
                            IF r2.old # None THEN "already exists" ELSE "ok")

(***************************************************************************)
(* The getters of Program.                                                 *)
(***************************************************************************)
contains_interface(name) == contains_key(interfaces, name)
contains_record(name) == contains_key(records, name)
contains_closure(name) == contains_key(closures, name)
contains_function(name) == contains_key(functions, name)

Ok(v) == [ok |-> TRUE, value |-> v]
Err(e) == [ok |-> FALSE, value |-> e]

\* Equality of two results: both Ok with equal values or both Err with
\* equal errors.
Same(a, b) == a.ok = b.ok /\ a.value = b.value

get_interface(name) ==
    LET found == get(interfaces, name) IN
    IF found = None THEN Err("not defined")
    ELSE IF found[1].members = <<>> THEN Err("missing members")
    ELSE Ok(found[1])

get_record(name) ==
    LET found == get(records, name) IN
    IF found = None THEN Err("not defined") ELSE Ok(found[1])

get_closure(name) ==
    LET found == get(closures, name) IN
    IF found = None THEN Err("not defined")
    ELSE IF found[1].inputs = <<>> THEN Err("without input statements")
    ELSE IF ~(Len(found[1].inputs) <= MAX_INPUTS) THEN Err("exceeds maximum number of inputs")
    ELSE IF found[1].instructions = <<>> THEN Err("without instructions")
    ELSE IF ~(Len(found[1].outputs) <= MAX_OUTPUTS) THEN Err("exceeds maximum number of outputs")
    ELSE Ok(found[1])

get_function(name) ==
    LET found == get(functions, name) IN
    IF found = None THEN Err("not defined")
    ELSE IF found[1].inputs = <<>> THEN Err("without input statements")
    ELSE IF ~(Len(found[1].inputs) <= MAX_INPUTS) THEN Err("exceeds maximum number of inputs")
    ELSE IF found[1].instructions = <<>> THEN Err("without instructions")
    ELSE IF ~(Len(found[1].outputs) <= MAX_OUTPUTS) THEN Err("exceeds maximum number of outputs")
    ELSE Ok(found[1])

(***************************************************************************)
(* Building a Program.                                                     *)
(***************************************************************************)
StackIdle ==
    /\ frames = <<>>
    /\ outcome = [ok |-> TRUE, value |-> <<>>]
    /\ runs = <<>>

Init == new /\ StackIdle

Next ==
    \/ \E import \in ImportArgs : add_import(import) /\ UNCHANGED stackVars
    \/ \E interface \in InterfaceArgs : add_interface(interface) /\ UNCHANGED stackVars
    \/ \E record \in RecordArgs : add_record(record) /\ UNCHANGED stackVars
    \/ \E closure \in ClosureArgs : add_closure(closure) /\ UNCHANGED stackVars
    \/ \E function \in FunctionArgs : add_function(function) /\ UNCHANGED stackVars

Spec == Init /\ [][Next]_vars

(***************************************************************************)
(* Properties of a Program under construction.                             *)
(***************************************************************************)
AddDefinitionOps == {"add_interface", "add_record", "add_closure", "add_function"}
AddOps == AddDefinitionOps \cup {"add_import"}

\* The types named by the inputs and outputs of a closure or function.
SignatureTypes(d) ==
    {d.inputs[i].ty : i \in 1..Len(d.inputs)} \cup {d.outputs[i].ty : i \in 1..Len(d.outputs)}

\* The interfaces named by the members of an interface or entries of a record.
NamedInterfaces(ms) == {ms[i].ty.id : i \in {j \in 1..Len(ms) : ms[j].ty.tag = "Interface"}}

\* C1: an add_import, add_interface, add_record, add_closure or add_function
\* call that returns an error leaves imports, identifiers, interfaces,
\* records, closures and functions exactly as they were before the call.
C1_FailedAddChangesNothing ==
    [][(last'.op \in AddOps /\ last'.res # "ok") => UNCHANGED progVars]_vars

C1_Witness ==
    /\ last.op = "add_function"
    /\ last.res = "without instructions"
    /\ identifiers # <<>>
    /\ imports # <<>>

\* C2: no name is a key of more than one of the interfaces, records,
\* closures and functions maps (nor twice a key of one of them), and an
\* add_interface, add_record, add_closure or add_function call whose name is
\* already a key of one of these maps returns an error.
Occurrences(name) ==
    Cardinality({i \in 1..Len(interfaces) : interfaces[i].key = name})
    + Cardinality({i \in 1..Len(records) : records[i].key = name})
    + Cardinality({i \in 1..Len(closures) : closures[i].key = name})
    + Cardinality({i \in 1..Len(functions) : functions[i].key = name})

C2_GloballyUniqueIdentifiers ==
    /\ [](\A name \in Names : Occurrences(name) <= 1)
    /\ [][(last'.op \in AddDefinitionOps /\ Occurrences(last'.arg.name) >= 1)
            => last'.res # "ok"]_vars

C2_Witness ==
    /\ last.op = "add_closure"
    /\ last.res = "already in use"
    /\ contains_key(records, last.arg.name)

\* C3: a Program never holds more than one record type, and an add_record
\* call made while a record type is registered returns an error.
C3_AtMostOneRecordType ==
    /\ [](Len(records) <= 1)
    /\ [][(last'.op = "add_record" /\ Len(records) >= 1) => last'.res # "ok"]_vars

\* Position of a registered name in the order of registration.
RegisteredAt(name) == IndexOf(identifiers, name)

EarlierInterface(named, definition) ==
    /\ contains_key(interfaces, named)
    /\ contains_key(identifiers, named)
    /\ contains_key(identifiers, definition)
    /\ RegisteredAt(named) < RegisteredAt(definition)

\* C4: every interface named by a member of a registered interface or by an
\* entry of a registered record was registered strictly earlier than the
\* definition naming it (so the type graph has no cycle), and an
\* add_interface / add_record call naming an interface that is not yet
\* registered, its own name included, returns an error.
C4_NoCyclicTypes ==
    /\ [](/\ \A i \in 1..Len(interfaces) :
              \A named \in NamedInterfaces(interfaces[i].value.members) :
                  EarlierInterface(named, interfaces[i].key)
          /\ \A i \in 1..Len(records) :
              \A named \in NamedInterfaces(records[i].value.entries) :
                  EarlierInterface(named, records[i].key))
    /\ [][(/\ last'.op = "add_interface"
           /\ \E named \in NamedInterfaces(last'.arg.members) : ~contains_key(interfaces, named))
            => last'.res # "ok"]_vars
    /\ [][(/\ last'.op = "add_record"
           /\ \E named \in NamedInterfaces(last'.arg.entries) : ~contains_key(interfaces, named))
            => last'.res # "ok"]_vars

C4_Witness ==
    /\ last.op = "add_interface"
    /\ last.res = "ok"
    /\ NamedInterfaces(last.arg.members) # {}
    /\ \E i \in 1..Len(interfaces) :
          /\ interfaces[i].key = last.arg.name
          /\ NamedInterfaces(interfaces[i].value.members) # {}

\* C5: no registered identifier equals a reserved keyword or the part of an
\* opcode before its first '.', and an add_import, add_interface,
\* add_record, add_closure or add_function call with such a name returns an
\* error.
OpcodeRoots == {opcode[1] : opcode \in OPCODES}

C5_NoReservedIdentifier ==
    /\ [](\A name \in Keys(identifiers) \cup Keys(interfaces) \cup Keys(records)
                      \cup Keys(closures) \cup Keys(functions) :
             name \notin KEYWORDS /\ name \notin OpcodeRoots)
    /\ [][(last'.op \in AddDefinitionOps /\ last'.arg.name \in KEYWORDS \cup OpcodeRoots)
            => last'.res # "ok"]_vars
    /\ [][(last'.op = "add_import" /\ last'.arg.id.name \in KEYWORDS \cup OpcodeRoots)
            => last'.res # "ok"]_vars

C5_Witness ==
    /\ last.op = "add_record"
    /\ last.arg.name = "is"
    /\ last.res = "reserved opcode"
    /\ identifiers # <<>>

\* C6: every stored closure and function has at least one input, at least
\* one instruction, at most MAX_INPUTS inputs and at most MAX_OUTPUTS
\* outputs, and add_closure / add_function return an error for a definition
\* that violates one of these four bounds.
WithinBounds(d) ==
    /\ Len(d.inputs) >= 1
    /\ Len(d.instructions) >= 1
    /\ Len(d.inputs) <= MAX_INPUTS
    /\ Len(d.outputs) <= MAX_OUTPUTS

C6_ClosureAndFunctionBounds ==
    /\ [](/\ \A i \in 1..Len(closures) : WithinBounds(closures[i].value)
          /\ \A i \in 1..Len(functions) : WithinBounds(functions[i].value))
    /\ [][(last'.op \in {"add_closure", "add_function"} /\ ~WithinBounds(last'.arg))
            => last'.res # "ok"]_vars

C6_Witness ==
    /\ \E i \in 1..Len(functions) : Len(functions[i].value.inputs) = MAX_INPUTS
    /\ last.op = "add_closure"
    /\ Len(last.arg.inputs) = MAX_INPUTS + 1
    /\ last.res = "exceeds maximum number of inputs"

\* C7: add_closure and add_function return an error for a definition with an
\* input or output type naming an interface or record that is not defined
\* in the program at the time of the call.
Defined(ty) ==
    CASE ty.tag = "Interface" -> contains_key(interfaces, ty.id)
      [] ty.tag = "Record" -> contains_key(records, ty.id)
      [] OTHER -> TRUE

C7_UndefinedSignatureTypeRejected ==
    [][(/\ last'.op \in {"add_closure", "add_function"}
        /\ \E ty \in SignatureTypes(last'.arg) : ~Defined(ty))
         => last'.res # "ok"]_vars

\* C8: after a successful add_interface, add_record or add_function of a
\* definition d named n, contains_*(n) holds and get_*(n) returns d, and
\* whatever get_interface, get_record or get_function returns for a
\* registered name is still returned after every later add_* call.
C8_AddedDefinitionIsKept ==
    [][\A name \in Names :
        /\ (last'.op = "add_interface" /\ last'.res = "ok" /\ last'.arg.name = name)
             => contains_interface(name)' /\ Same(get_interface(name)', Ok(last'.arg))
        /\ (last'.op = "add_record" /\ last'.res = "ok" /\ last'.arg.name = name)
             => contains_record(name)' /\ Same(get_record(name)', Ok(last'.arg))
        /\ (last'.op = "add_function" /\ last'.res = "ok" /\ last'.arg.name = name)
             => contains_function(name)' /\ Same(get_function(name)', Ok(last'.arg))
        /\ contains_interface(name) => Same(get_interface(name)', get_interface(name))
        /\ contains_record(name) => Same(get_record(name)', get_record(name))
        /\ contains_function(name) => Same(get_function(name)', get_function(name))]_vars

C8_Witness ==
    /\ last.op = "add_function"
    /\ last.res = "already in use"
    /\ contains_interface(last.arg.name)
    /\ \E name \in Names : contains_record(name)

\* The names called by the instructions of a closure or function.
Callees(definition) ==
    {definition.instructions[i].callee :
        i \in {j \in 1..Len(definition.instructions) : definition.instructions[j].opcode = "call"}}

\* The closure or function registered under `name`, if any.
Callable(name) ==
    IF contains_key(closures, name) THEN get(closures, name)
    ELSE get(functions, name)

\* The names reached from the names `from` through at most `steps` calls.
RECURSIVE CalledWithin(_, _)
CalledWithin(from, steps) ==
    IF steps = 0 THEN {}
    ELSE LET direct == UNION {IF Callable(name) = None THEN {} ELSE Callees(Callable(name)[1]) :
                                name \in from}
         IN  direct \cup CalledWithin(direct, steps - 1)

\* C15 (as stated): in every Program built through the add_* operations no
\* closure or function calls itself, directly or through other closures and
\* functions.
C15_CallGraphAcyclic ==
    \A name \in Keys(closures) \cup Keys(functions) :
        name \notin CalledWithin({name}, Cardinality(Names))

(***************************************************************************)
(* The Stack: evaluate (native values) and execute (circuit values).       *)
(***************************************************************************)
\* Largest number of evaluate / execute invocations in one behaviour.
MaxRuns == 3
\* The modulus of the field; the model uses a small one.
FieldModulus == 23

U8_MAX == 2^8 - 1

\* Native literals.
Field(n) == [type |-> "field", value |-> n]
U8(n) == [type |-> "u8", value |-> n]

\* Circuit literals: a native literal injected with a mode.
inject(literal, mode) == [type |-> literal.type, value |-> literal.value, mode |-> mode]

eject_value(circuit) == [type |-> circuit.type, value |-> circuit.value]

eject_mode(circuit) == circuit.mode

\* The program of the evaluation tests: the function foo, the closure
\* execute with the function compute that calls it, and a function on u8.
closure_execute ==
    [name |-> "execute",
     inputs |-> <<Statement(0, Literal("field"), ""), Statement(1, Literal("field"), "")>>,
     instructions |-> <<Instruction("add", "", <<0, 1>>, <<2>>),
                        Instruction("add", "", <<0, 2>>, <<3>>),
                        Instruction("add", "", <<2, 3>>, <<4>>)>>,
     outputs |-> <<Statement(4, Literal("field"), ""), Statement(3, Literal("field"), ""),
                   Statement(2, Literal("field"), "")>>]

function_compute ==
    [name |-> "compute",
     inputs |-> <<Statement(0, Literal("field"), "Private"), Statement(1, Literal("field"), "Public")>>,
     instructions |-> <<Instruction("call", "execute", <<0, 1>>, <<2, 3, 4>>)>>,
     outputs |-> <<Statement(2, Literal("field"), "Private"), Statement(3, Literal("field"), "Private"),
                   Statement(4, Literal("field"), "Private")>>]

function_foo ==
    [name |-> "foo",
     inputs |-> <<Statement(0, Literal("field"), "Public"), Statement(1, Literal("field"), "Private")>>,
     instructions |-> <<Instruction("add", "", <<0, 1>>, <<2>>)>>,
     outputs |-> <<Statement(2, Literal("field"), "Private")>>]

function_twice ==
    [name |-> "twice",
     inputs |-> <<Statement(0, Literal("u8"), "Private")>>,
     instructions |-> <<Instruction("add", "", <<0, 0>>, <<1>>)>>,
     outputs |-> <<Statement(1, Literal("u8"), "Private")>>]

\* A closure on u8 that doubles its input, and a closure that calls it twice.
closure_double ==
    [name |-> "double",
     inputs |-> <<Statement(0, Literal("u8"), "")>>,
     instructions |-> <<Instruction("add", "", <<0, 0>>, <<1>>)>>,
     outputs |-> <<Statement(1, Literal("u8"), "")>>]

closure_quad ==
    [name |-> "quad",
     inputs |-> <<Statement(0, Literal("u8"), "")>>,
     instructions |-> <<Instruction("call", "double", <<0>>, <<1>>),
                        Instruction("call", "double", <<1>>, <<2>>)>>,
     outputs |-> <<Statement(2, Literal("u8"), "")>>]

\* A function that calls quad and then adds: calls nested two deep.
function_outer ==
    [name |-> "outer",
     inputs |-> <<Statement(0, Literal("u8"), "Private")>>,
     instructions |-> <<Instruction("call", "quad", <<0>>, <<1>>),
                        Instruction("add", "", <<1, 1>>, <<2>>)>>,
     outputs |-> <<Statement(2, Literal("u8"), "Private")>>]

\* A function whose instruction names an input register as its destination.
function_rewrite ==
    [name |-> "rewrite",
     inputs |-> <<Statement(0, Literal("field"), "Private"), Statement(1, Literal("field"), "Private")>>,
     instructions |-> <<Instruction("add", "", <<0, 1>>, <<0>>)>>,
     outputs |-> <<Statement(0, Literal("field"), "Private")>>]

\* A function whose instruction reads a register that was never written.
function_early ==
    [name |-> "early",
     inputs |-> <<Statement(0, Literal("field"), "Private"), Statement(1, Literal("field"), "Private")>>,
     instructions |-> <<Instruction("add", "", <<0, 5>>, <<2>>)>>,
     outputs |-> <<Statement(2, Literal("field"), "Private")>>]

Entry(k, v) == [key |-> k, value |-> v]

\* The Program after add_closure and add_function of the definitions above.
ExampleProgram ==
    /\ imports = <<>>
    /\ identifiers = <<Entry("execute", "Closure"), Entry("compute", "Function"),
                       Entry("foo", "Function"), Entry("twice", "Function"),
                       Entry("double", "Closure"), Entry("quad", "Closure"),
                       Entry("outer", "Function"), Entry("rewrite", "Function"),
                       Entry("early", "Function")>>
    /\ interfaces = <<>>
    /\ records = <<>>
    /\ closures = <<Entry("execute", closure_execute), Entry("double", closure_double),
                    Entry("quad", closure_quad)>>
    /\ functions = <<Entry("compute", function_compute), Entry("foo", function_foo),
                     Entry("twice", function_twice), Entry("outer", function_outer),
                     Entry("rewrite", function_rewrite), Entry("early", function_early)>>
    /\ last = NoCall

\* The invocations tried: a name and the input values handed to evaluate
\* and execute.  "execute" names a closure, not a function; foo on one
\* input has the wrong number of inputs; twice on a field has the wrong type.
Invocation(name, inputs) == [name |-> name, inputs |-> inputs]

\* The invocations handed to evaluate.
Invocations ==
    {Invocation("compute", <<Field(3), Field(5)>>), Invocation("compute", <<Field(5), Field(5)>>),
     Invocation("foo", <<Field(3), Field(5)>>), Invocation("foo", <<U8(100)>>),
     Invocation("twice", <<U8(100)>>), Invocation("twice", <<U8(200)>>),
     Invocation("twice", <<Field(3)>>),
     Invocation("outer", <<U8(10)>>), Invocation("outer", <<U8(100)>>),
     Invocation("rewrite", <<Field(3), Field(5)>>), Invocation("early", <<Field(3), Field(5)>>),
     Invocation("execute", <<Field(3), Field(5)>>)}

\* The invocations handed to execute.
CircuitInvocations ==
    {Invocation("compute", <<Field(3), Field(5)>>), Invocation("compute", <<Field(5), Field(5)>>),
     Invocation("twice", <<U8(200)>>), Invocation("twice", <<Field(3)>>),
     Invocation("rewrite", <<Field(3), Field(5)>>)}

FunctionNames == {invocation.name : invocation \in Invocations}

InputLists == {invocation.inputs : invocation \in Invocations}

Modes == {"evaluate", "execute"}

\* --- the operation add --------------------------------------------------
\* Native evaluation: integer overflow halts.
evaluate_add(first, second) ==
    CASE first.type = "field" /\ second.type = "field" ->
            Ok(Field((first.value + second.value) % FieldModulus))
      [] first.type = "u8" /\ second.type = "u8" ->
            IF first.value + second.value > U8_MAX
            THEN Err("halt: overflow")
            ELSE Ok(U8(first.value + second.value))
      [] OTHER -> Err("halt: invalid add instruction")

\* The mode of the result of a circuit operation.
result_mode(first, second) ==
    IF first.mode = "Constant" /\ second.mode = "Constant" THEN "Constant" ELSE "Private"

\* A variant whose field addition is not reduced modulo the field modulus.
execute_add_unreduced(first, second) ==
    CASE first.type = "field" /\ second.type = "field" ->
            [ok |-> TRUE, satisfied |-> TRUE,
             value |-> inject(Field(first.value + second.value), result_mode(first, second))]
      [] first.type = "u8" /\ second.type = "u8" ->
            [ok |-> TRUE, satisfied |-> first.value + second.value <= U8_MAX,
             value |-> inject(U8((first.value + second.value) % (U8_MAX + 1)),
                              result_mode(first, second))]
      [] OTHER -> [ok |-> FALSE, satisfied |-> FALSE, value |-> "halt: invalid add instruction"]

\* Circuit execution: integer overflow is an unsatisfied constraint, not a halt.
execute_add(first, second) ==
    CASE first.type = "field" /\ second.type = "field" ->
            [ok |-> TRUE, satisfied |-> TRUE,
             value |-> inject(Field((first.value + second.value) % FieldModulus),
                              result_mode(first, second))]
      [] first.type = "u8" /\ second.type = "u8" ->
            [ok |-> TRUE, satisfied |-> first.value + second.value <= U8_MAX,
             value |-> inject(U8((first.value + second.value) % (U8_MAX + 1)),
                              result_mode(first, second))]
      [] OTHER -> [ok |-> FALSE, satisfied |-> FALSE, value |-> "halt: invalid add instruction"]

\* --- registers ----------------------------------------------------------
\* A variant that leaves the register file as it is.
clear_nothing(registers) == registers

\* IndexMap::clear on the register file of the Stack.
clear(registers) == <<>>

\* A variant that replaces the value of an occupied register.
store_overwriting(registers, register, value) ==
    Ok(insert(registers, register, value).map)

\* Storing into a register that already holds a value fails.
store(registers, register, value) ==
    IF contains_key(registers, register)
    THEN Err("halt: register already occupied")
    ELSE Ok(insert(registers, register, value).map)

\* Storing the values vs, in order, into the registers rs.
RECURSIVE store_all(_, _, _)
store_all(registers, rs, vs) ==
    IF Len(rs) # Len(vs) THEN Err("halt: wrong number of values")
    ELSE IF rs = <<>> THEN Ok(registers)
    ELSE LET stored == store(registers, Head(rs), Head(vs)) IN
         IF ~stored.ok THEN stored ELSE store_all(stored.value, Tail(rs), Tail(vs))

\* Loading the registers rs, in order; loading an empty register fails.
load_all(registers, rs) ==
    IF \E i \in 1..Len(rs) : ~contains_key(registers, rs[i])
    THEN Err("halt: register not initialized")
    ELSE Ok([i \in 1..Len(rs) |-> get(registers, rs[i])[1]])

\* --- call frames --------------------------------------------------------
Frame(mode, definition, arguments, values, registers) ==
    [mode |-> mode, definition |-> definition, phase |-> "inputs", pc |-> 1,
     arguments |-> arguments, pending |-> values, registers |-> registers,
     satisfied |-> TRUE]

Top == frames[Len(frames)]

Idle == frames = <<>> \/ (Len(frames) = 1 /\ frames[1].phase = "done")

Running == frames # <<>> /\ Top.phase # "done"

\* The register file the Stack holds between two invocations.
StackRegisters == IF frames = <<>> THEN <<>> ELSE frames[1].registers

\* A finished invocation; depth is the number of call frames that were
\* active when it ended.
Run(mode, name, inputs, result, depth) ==
    [mode |-> mode, name |-> name, inputs |-> inputs, result |-> result, depth |-> depth]

\* The invocation ends with `result`: the Stack keeps its register file.
Finished(result) ==
    /\ outcome' = result
    /\ runs' = Append(runs, Run(frames[1].mode, frames[1].definition.name, frames[1].arguments,
                                result, Len(frames)))
    /\ frames' = <<[frames[1] EXCEPT !.phase = "done"]>>

\* The top frame continues with the registers `registers`.
Continue(registers, satisfied) ==
    LET next == IF Top.pc < Len(Top.definition.instructions)
                THEN [Top EXCEPT !.pc = Top.pc + 1, !.registers = registers,
                                 !.satisfied = satisfied]
                ELSE [Top EXCEPT !.phase = "outputs", !.pc = 1, !.registers = registers,
                                 !.satisfied = satisfied]
    IN  /\ frames' = [frames EXCEPT ![Len(frames)] = next]
        /\ UNCHANGED <<outcome, runs>>

\* A variant that compares the number of inputs only.
matches_signature_count_only(definition, inputs) ==
    Len(definition.inputs) = Len(inputs)

\* The input values have the number and the types of the input statements.
matches_signature(definition, inputs) ==
    /\ Len(definition.inputs) = Len(inputs)
    /\ \A i \in 1..Len(inputs) : definition.inputs[i].ty = Literal(inputs[i].type)

\* Stack::evaluate / Stack::execute, call set-up: look the function up,
\* compare the number and types of the inputs, start from an empty register
\* file.
invoke(mode, name, inputs) ==
    LET function == get_function(name)
        values == IF mode = "evaluate" THEN inputs
                  ELSE [i \in 1..Len(inputs) |->
                          inject(inputs[i], function.value.inputs[i].mode)]
    IN  /\ Idle
        /\ Len(runs) < MaxRuns
        /\ IF ~function.ok
           THEN /\ outcome' = Err(function.value)
                /\ runs' = Append(runs, Run(mode, name, inputs, Err(function.value), 0))
                /\ UNCHANGED frames
           ELSE IF Len(function.value.inputs) # Len(inputs)
           THEN /\ outcome' = Err("wrong number of inputs")
                /\ runs' = Append(runs, Run(mode, name, inputs, Err("wrong number of inputs"), 0))
                /\ UNCHANGED frames
           ELSE IF ~matches_signature(function.value, inputs)
           THEN /\ outcome' = Err("wrong type of input")
                /\ runs' = Append(runs, Run(mode, name, inputs, Err("wrong type of input"), 0))
                /\ UNCHANGED frames
           ELSE /\ frames' = <<Frame(mode, function.value, inputs, values, clear(StackRegisters))>>
                /\ UNCHANGED <<outcome, runs>>

evaluate(name, inputs) == invoke("evaluate", name, inputs)

execute(name, inputs) == invoke("execute", name, inputs)

\* AllocateInputs: the next input value is stored in its declared register.
store_input ==
    LET statement == Top.definition.inputs[Top.pc]
        stored == store(Top.registers, statement.register, Top.pending[Top.pc])
        next == IF Top.pc < Len(Top.definition.inputs)
                THEN [Top EXCEPT !.pc = Top.pc + 1, !.registers = stored.value]
                ELSE [Top EXCEPT !.phase = "instructions", !.pc = 1,
                                 !.registers = stored.value]
    IN  /\ Running
        /\ Top.phase = "inputs"
        /\ IF ~stored.ok
           THEN Finished(stored)
           ELSE /\ frames' = [frames EXCEPT ![Len(frames)] = next]
                /\ UNCHANGED <<outcome, runs>>

\* A variant that stores a zero of the operand type when the operation halts
\* and goes on with the next instruction.
instruction_step_defaulting ==
    LET instruction == Top.definition.instructions[Top.pc]
        operands == load_all(Top.registers, instruction.operands)
        native == evaluate_add(operands.value[1], operands.value[2])
        circuit == execute_add(operands.value[1], operands.value[2])
        result == IF Top.mode = "evaluate" THEN native ELSE [ok |-> circuit.ok, value |-> circuit.value]
        satisfied == IF Top.mode = "evaluate" THEN Top.satisfied
                     ELSE Top.satisfied /\ circuit.satisfied
        stored == store(Top.registers, instruction.destinations[1], result.value)
    IN  /\ Running
        /\ Top.phase = "instructions"
        /\ instruction.opcode = "add"
        /\ IF ~operands.ok THEN Finished(operands)
           ELSE IF ~result.ok
           THEN Continue(insert(Top.registers, instruction.destinations[1],
                                [operands.value[1] EXCEPT !.value = 0]).map, satisfied)
           ELSE IF ~stored.ok THEN Finished(stored)
           ELSE Continue(stored.value, satisfied)

\* ExecuteInstructions, an operation: load the operands, dispatch to the
\* native or the circuit evaluator, store the result in the destination.
instruction_step ==
    LET instruction == Top.definition.instructions[Top.pc]
        operands == load_all(Top.registers, instruction.operands)
        native == evaluate_add(operands.value[1], operands.value[2])
        circuit == execute_add(operands.value[1], operands.value[2])
        result == IF Top.mode = "evaluate" THEN native ELSE [ok |-> circuit.ok, value |-> circuit.value]
        satisfied == IF Top.mode = "evaluate" THEN Top.satisfied
                     ELSE Top.satisfied /\ circuit.satisfied
        stored == store(Top.registers, instruction.destinations[1], result.value)
    IN  /\ Running
        /\ Top.phase = "instructions"
        /\ instruction.opcode = "add"
        /\ IF ~operands.ok THEN Finished(operands)
           ELSE IF ~result.ok THEN Finished(result)
           ELSE IF ~stored.ok THEN Finished(stored)
           ELSE Continue(stored.value, satisfied)

\* A variant in which the callee starts from the register file of its caller.
call_step_shared_registers ==
    LET instruction == Top.definition.instructions[Top.pc]
        operands == load_all(Top.registers, instruction.operands)
        callee == get_closure(instruction.callee)
    IN  /\ Running
        /\ Top.phase = "instructions"
        /\ instruction.opcode = "call"
        /\ IF ~operands.ok THEN Finished(operands)
           ELSE IF ~callee.ok THEN Finished(callee)
           ELSE IF Len(callee.value.inputs) # Len(operands.value)
           THEN Finished(Err("halt: wrong number of inputs"))
           ELSE /\ frames' = Append(frames, Frame(Top.mode, callee.value, operands.value,
                                                  operands.value, Top.registers))
                /\ UNCHANGED <<outcome, runs>>

\* ExecuteInstructions, a call: the operand values become the inputs of a
\* new frame for the callee, which starts from an empty register file.
call_step ==
    LET instruction == Top.definition.instructions[Top.pc]
        operands == load_all(Top.registers, instruction.operands)
        callee == get_closure(instruction.callee)
    IN  /\ Running
        /\ Top.phase = "instructions"
        /\ instruction.opcode = "call"
        /\ IF ~operands.ok THEN Finished(operands)
           ELSE IF ~callee.ok THEN Finished(callee)
           ELSE IF Len(callee.value.inputs) # Len(operands.value)
           THEN Finished(Err("halt: wrong number of inputs"))
           ELSE /\ frames' = Append(frames, Frame(Top.mode, callee.value, operands.value,
                                                  operands.value, <<>>))
                /\ UNCHANGED <<outcome, runs>>

\* A variant that lists the output registers by ascending register index.
output_registers_by_index(definition) ==
    LET declared == {definition.outputs[i].register : i \in 1..Len(definition.outputs)}
    IN  [i \in 1..Len(definition.outputs) |->
           CHOOSE r \in declared : Cardinality({q \in declared : q < r}) = i - 1]

\* The registers named by the output statements, in declaration order.
output_registers(definition) ==
    [i \in 1..Len(definition.outputs) |-> definition.outputs[i].register]

\* CollectOutputs in a callee: its outputs, in declaration order, are stored
\* in the destination registers of the call, and the caller continues.
return_to_caller ==
    LET outputs == load_all(Top.registers, output_registers(Top.definition))
        caller == frames[Len(frames) - 1]
        instruction == caller.definition.instructions[caller.pc]
        stored == store_all(caller.registers, instruction.destinations, outputs.value)
        next == IF caller.pc < Len(caller.definition.instructions)
                THEN [caller EXCEPT !.pc = caller.pc + 1, !.registers = stored.value,
                                    !.satisfied = caller.satisfied /\ Top.satisfied]
                ELSE [caller EXCEPT !.phase = "outputs", !.pc = 1, !.registers = stored.value,
                                    !.satisfied = caller.satisfied /\ Top.satisfied]
    IN  /\ Running
        /\ Top.phase = "outputs"
        /\ Len(frames) > 1
        /\ IF ~outputs.ok THEN Finished(outputs)
           ELSE IF ~stored.ok THEN Finished(stored)
           ELSE /\ frames' = Append(SubSeq(frames, 1, Len(frames) - 2), next)
                /\ UNCHANGED <<outcome, runs>>

\* CollectOutputs of the invoked function: the invocation returns its
\* outputs in declaration order.
return_outputs ==
    LET outputs == load_all(Top.registers, output_registers(Top.definition))
    IN  /\ Running
        /\ Top.phase = "outputs"
        /\ Len(frames) = 1
        /\ Finished(outputs)

InitStack ==
    /\ ExampleProgram
    /\ StackIdle

NextStack ==
    \/ \E invocation \in Invocations :
          evaluate(invocation.name, invocation.inputs) /\ UNCHANGED <<progVars, last>>
    \/ \E invocation \in CircuitInvocations :
          execute(invocation.name, invocation.inputs) /\ UNCHANGED <<progVars, last>>
    \/ store_input /\ UNCHANGED <<progVars, last>>
    \/ instruction_step /\ UNCHANGED <<progVars, last>>
    \/ call_step /\ UNCHANGED <<progVars, last>>
    \/ return_to_caller /\ UNCHANGED <<progVars, last>>
    \/ return_outputs /\ UNCHANGED <<progVars, last>>

SpecStack == InitStack /\ [][NextStack]_vars

\* The finished invocations of function `name` on `inputs` in mode `mode`.
RunsOf(mode, name, inputs) ==
    {i \in 1..Len(runs) :
        runs[i].mode = mode /\ runs[i].name = name /\ runs[i].inputs = inputs}

\* C9: every evaluate of the same function on the same inputs on one Stack
\* returns the same result, whatever was evaluated or executed in between.
C9_RepeatedEvaluateAgrees ==
    \A name \in FunctionNames, inputs \in InputLists :
        \A i, j \in RunsOf("evaluate", name, inputs) : Same(runs[i].result, runs[j].result)

C9_Witness ==
    \E i, j, k \in 1..Len(runs) :
        /\ i < j /\ j < k
        /\ runs[i].mode = "evaluate" /\ runs[k].mode = "evaluate"
        /\ runs[i].name = "compute" /\ runs[k].name = "compute"
        /\ runs[i].inputs = runs[k].inputs
        /\ runs[j].name = "foo"
        /\ runs[i].result.ok /\ runs[j].result.ok /\ runs[k].result.ok

test_program_evaluate_call_expected == <<Field(19), Field(11), Field(8)>>

\* C11 (as amended): compute on 3field, 5field returns 19field, 11field,
\* 8field for its outputs r2, r3, r4: the closure's outputs r4, r3, r2 are
\* bound, in that order, to the destinations r2, r3, r4 of the call.  evaluate
\* returns these values and execute returns circuit values that eject to them.
C11_ComputeReturns19_11_8 ==
    /\ \A i \in RunsOf("evaluate", "compute", <<Field(3), Field(5)>>) :
          Same(runs[i].result, Ok(test_program_evaluate_call_expected))
    /\ \A i \in RunsOf("execute", "compute", <<Field(3), Field(5)>>) :
          /\ runs[i].result.ok
          /\ [k \in 1..Len(runs[i].result.value) |-> eject_value(runs[i].result.value[k])]
                = test_program_evaluate_call_expected

C11_Witness ==
    /\ RunsOf("evaluate", "compute", <<Field(3), Field(5)>>) # {}
    /\ RunsOf("execute", "compute", <<Field(3), Field(5)>>) # {}

\* C11 (as stated): compute on 3field, 5field returns r2 = 8field,
\* r3 = 11field, r4 = 19field.
C11_ComputeReturns8_11_19 ==
    \A i \in RunsOf("evaluate", "compute", <<Field(3), Field(5)>>) :
        Same(runs[i].result, Ok(<<Field(8), Field(11), Field(19)>>))

\* C12: a call hands the operand values, in order, to a callee that starts
\* from an empty register file while the caller's frames stay as they are;
\* on return the callee's i-th declared output is stored in the i-th
\* destination of the call and every other register of the caller keeps its
\* value; a successful invocation returns the registers of its output
\* statements in declaration order.
C12_CallBindsInDeclarationOrder ==
    [][/\ (frames # <<>> /\ Len(frames') = Len(frames) + 1) =>
            LET instruction == Top.definition.instructions[Top.pc] IN
            /\ Top'.definition.name = instruction.callee
            /\ Top'.pending = [i \in 1..Len(instruction.operands) |->
                                  get(Top.registers, instruction.operands[i])[1]]
            /\ Top'.registers = <<>>
            /\ SubSeq(frames', 1, Len(frames)) = frames
       /\ (runs' = runs /\ Len(frames') = Len(frames) - 1) =>
            LET caller == frames[Len(frames) - 1]
                instruction == caller.definition.instructions[caller.pc] IN
            /\ \A i \in 1..Len(instruction.destinations) :
                  get(Top'.registers, instruction.destinations[i])
                    = get(Top.registers, Top.definition.outputs[i].register)
            /\ \A register \in Keys(caller.registers) :
                  get(Top'.registers, register) = get(caller.registers, register)
       /\ (runs' # runs /\ outcome'.ok) =>
            outcome'.value = [i \in 1..Len(frames[1].definition.outputs) |->
                                get(frames[1].registers, frames[1].definition.outputs[i].register)[1]]
      ]_vars

\* compute has returned: its r2 holds the closure's r4 (19field), not the
\* closure's r2 (8field).
C12_Witness ==
    /\ frames # <<>>
    /\ frames[1].phase = "done"
    /\ frames[1].definition.name = "compute"
    /\ frames[1].mode = "evaluate"
    /\ outcome.ok
    /\ get(frames[1].registers, 2) = Some(Field(19))
    /\ outcome.value[1] = Field(19)

\* The instruction the top frame is about to run halts: an operand register
\* is empty, the operation halts on the operand values, or the destination
\* register is occupied.
HaltsNow ==
    /\ Running
    /\ Top.phase = "instructions"
    /\ Top.definition.instructions[Top.pc].opcode = "add"
    /\ LET instruction == Top.definition.instructions[Top.pc]
           operands == load_all(Top.registers, instruction.operands)
       IN  \/ ~operands.ok
           \/ Top.mode = "evaluate" /\ ~evaluate_add(operands.value[1], operands.value[2]).ok
           \/ Top.mode = "execute" /\ ~execute_add(operands.value[1], operands.value[2]).ok
           \/ contains_key(Top.registers, instruction.destinations[1])

HaltMessages ==
    {"halt: overflow", "halt: invalid add instruction", "halt: register already occupied",
     "halt: register not initialized", "halt: wrong number of values",
     "halt: wrong number of inputs"}

\* C14: a halting instruction, at any call depth, ends the invocation in
\* that very step: every call frame is dropped, nothing is left running, and
\* the invocation returns the error of the halt, not a list of outputs.
C14_HaltIsTerminal ==
    [][/\ HaltsNow =>
            /\ Len(runs') = Len(runs) + 1
            /\ ~outcome'.ok
            /\ outcome'.value \in HaltMessages
       /\ (runs' # runs /\ ~outcome'.ok) =>
            /\ Idle'
            /\ ~Running'
            /\ Len(frames') <= 1
            /\ runs'[Len(runs')].result = outcome'
      ]_vars

\* An evaluate of outer has halted in the closure double, three frames deep.
C14_Witness ==
    \E i \in 1..Len(runs) :
        /\ runs[i].name = "outer"
        /\ runs[i].mode = "evaluate"
        /\ runs[i].depth = 3
        /\ Same(runs[i].result, Err("halt: overflow"))
        /\ Idle

\* The invocation of `name` on `inputs` must fail at call set-up: no function
\* of that name exists, or the types of the inputs are not, one by one, the
\* declared input types.
SetupError(name, inputs) ==
    \/ ~contains_function(name)
    \/ [i \in 1..Len(get(functions, name)[1].inputs) |-> get(functions, name)[1].inputs[i].ty.id]
         # [i \in 1..Len(inputs) |-> inputs[i].type]

SetupMessages == {"not defined", "wrong number of inputs", "wrong type of input"}

\* C16: an evaluate or execute that names no function of the program, or whose
\* inputs differ in number or type from the declared inputs, returns an error
\* at call set-up: no frame ever runs for it, and the step that returns the
\* error leaves the Stack's frames, its register file and the Program as they
\* were.
C16_SetupErrorsRunNothing ==
    /\ [](\A i \in 1..Len(runs) :
            SetupError(runs[i].name, runs[i].inputs) =>
                /\ ~runs[i].result.ok
                /\ runs[i].result.value \in SetupMessages
                /\ runs[i].depth = 0)
    /\ [](frames # <<>> => ~SetupError(frames[1].definition.name, frames[1].arguments))
    /\ [][\A invocation \in Invocations :
            (Idle /\ Len(runs') = Len(runs) + 1
               /\ runs'[Len(runs')].name = invocation.name
               /\ runs'[Len(runs')].inputs = invocation.inputs) =>
                /\ SetupError(invocation.name, invocation.inputs)
                /\ ~outcome'.ok
                /\ frames' = frames
                /\ UNCHANGED progVars]_vars

\* twice was handed a field for its u8 input, and "execute" was invoked
\* although it names a closure: both were refused.
C16_Witness ==
    \E i, j \in 1..Len(runs) :
        /\ runs[i].name = "twice" /\ runs[i].inputs = <<Field(3)>>
        /\ Same(runs[i].result, Err("wrong type of input"))
        /\ runs[j].name = "execute"
        /\ Same(runs[j].result, Err("not defined"))
        /\ frames # <<>>

\* The operation the top frame is about to run.
NextOperation ==
    IF Running /\ Top.phase = "instructions" /\ Top.definition.instructions[Top.pc].opcode = "add"
    THEN Some(Top.definition.instructions[Top.pc])
    ELSE None

\* C17: while an invocation runs, a register that holds a value keeps that
\* value for as long as its call frame lives and no register appears twice
\* in a register file; an instruction whose destination is occupied fails
\* with an error and so does an instruction with an operand register that
\* holds no value.
C17_RegistersAreSingleAssignment ==
    /\ [](\A i \in 1..Len(frames) :
            \A k, l \in 1..Len(frames[i].registers) :
                frames[i].registers[k].key = frames[i].registers[l].key => k = l)
    /\ [][Running =>
            \A i \in 1..Len(frames) :
                i <= Len(frames') =>
                    \A k \in 1..Len(frames[i].registers) :
                        /\ k <= Len(frames'[i].registers)
                        /\ frames'[i].registers[k] = frames[i].registers[k]]_vars
    /\ [][NextOperation # None =>
            LET instruction == NextOperation[1] IN
            /\ (\E i \in 1..Len(instruction.operands) :
                    ~contains_key(Top.registers, instruction.operands[i]))
                 => Same(outcome', Err("halt: register not initialized")) /\ Idle'
            /\ contains_key(Top.registers, instruction.destinations[1])
                 => ~outcome'.ok /\ Idle']_vars

\* rewrite (add r0 r1 into r0) and early (add r0 r5 into r2) have both failed.
C17_Witness ==
    \E i, j \in 1..Len(runs) :
        /\ runs[i].name = "rewrite"
        /\ Same(runs[i].result, Err("halt: register already occupied"))
        /\ runs[j].name = "early"
        /\ Same(runs[j].result, Err("halt: register not initialized"))

(***************************************************************************)
(* The operation registry: signature tables and native evaluation.         *)
(***************************************************************************)
SignedTypes == {"i8", "i16", "i32", "i64", "i128"}

UnsignedTypes == {"u8", "u16", "u32", "u64", "u128"}

IntegerTypes == SignedTypes \cup UnsignedTypes

\* The shift amounts and exponents are U8, U16 or U32.
MagnitudeTypes == {"u8", "u16", "u32"}

LiteralTypes == {"address", "boolean", "field", "group", "scalar", "string"} \cup IntegerTypes

\* One row of a signature table: input types => output type.
Signature(inputs, output) == [inputs |-> inputs, output |-> output]

\* (T, T) => T and T => T for every T of `types`.
Binary(types) == {Signature(<<t, t>>, t) : t \in types}

Unary(types) == {Signature(<<t>>, t) : t \in types}

\* (T, T) => Boolean for every T of `types`.
Comparison(types) == {Signature(<<t, t>>, "boolean") : t \in types}

\* (T, M) => T for every integer type T and magnitude type M.
Shift == {Signature(<<t, m>>, t) : t \in IntegerTypes, m \in MagnitudeTypes}

\* The literal types of the tables of is.eq and is.neq: String is not one.
EqualTypes == {"address", "boolean", "field", "group", "scalar"} \cup IntegerTypes

\* A variant of the table of nand and nor that also lists the integers.
BooleanOnly_with_integers == Binary({"boolean"} \cup IntegerTypes)

\* The table of nand and of nor.
BooleanOnly == Binary({"boolean"})

\* The signature table of each opcode.
Signatures(opcode) ==
    CASE opcode = "add" -> Binary({"field", "group", "scalar"} \cup IntegerTypes)
      [] opcode = "add.w" -> Binary(IntegerTypes)
      [] opcode = "sub" -> Binary({"field", "group"} \cup IntegerTypes)
      [] opcode = "sub.w" -> Binary(IntegerTypes)
      [] opcode = "mul" -> Binary({"field"} \cup IntegerTypes)
                             \cup {Signature(<<"group", "scalar">>, "group"),
                                   Signature(<<"scalar", "group">>, "group")}
      [] opcode = "mul.w" -> Binary(IntegerTypes)
      [] opcode = "and" -> Binary({"boolean"} \cup IntegerTypes)
      [] opcode = "or" -> Binary({"boolean"} \cup IntegerTypes)
      [] opcode = "xor" -> Binary({"boolean"} \cup IntegerTypes)
      [] opcode = "nand" -> BooleanOnly
      [] opcode = "nor" -> BooleanOnly
      [] opcode = "not" -> Unary({"boolean"} \cup IntegerTypes)
      [] opcode = "is.eq" -> Comparison(EqualTypes)
      [] opcode = "is.neq" -> Comparison(EqualTypes)
      [] opcode = "shl" -> Shift
      [] opcode = "shl.w" -> Shift
      [] opcode = "shr" -> Shift
      [] opcode = "shr.w" -> Shift
      [] OTHER -> {}

\* Operation::output_type: the output type of the row that lists the input
\* types, an error when no row does.
output_type(opcode, inputs) ==
    IF \E signature \in Signatures(opcode) : signature.inputs = inputs
    THEN Ok((CHOOSE signature \in Signatures(opcode) : signature.inputs = inputs).output)
    ELSE Err("invalid instruction")

\* --- native literals of the integer types ---------------------------------
Integer(type, n) == [type |-> type, value |-> n]

\* A boolean literal; its value is written 1 for true and 0 for false.
Boolean(b) == [type |-> "boolean", value |-> IF b THEN 1 ELSE 0]

BITS(type) ==
    CASE type \in {"i8", "u8"} -> 8
      [] type \in {"i16", "u16"} -> 16
      [] type \in {"i32", "u32"} -> 32
      [] type \in {"i64", "u64"} -> 64
      [] type \in {"i128", "u128"} -> 128

MIN(type) == IF type \in SignedTypes THEN -(2^(BITS(type) - 1)) ELSE 0

MAX(type) == IF type \in SignedTypes THEN 2^(BITS(type) - 1) - 1 ELSE 2^BITS(type) - 1

\* The value of `type` congruent to n modulo 2^BITS (two's complement).
wrap(type, n) ==
    LET reduced == n % 2^BITS(type)
    IN  IF reduced > MAX(type) THEN reduced - 2^BITS(type) ELSE reduced

\* A variant of the checked result that wraps instead of halting.
checked_wrapping(type, n) == Ok(Integer(type, wrap(type, n)))

\* "ensure overflows halt": a result outside the type halts.
checked(type, n) ==
    IF n < MIN(type) \/ n > MAX(type) THEN Err("halt: overflow") ELSE Ok(Integer(type, n))

\* The wrapped operations: the result wraps around at the boundary of the type.
wrapped(type, n) == Ok(Integer(type, wrap(type, n)))

\* "ensure shifting past boundary halts": an amount of BITS or more is past
\* the boundary of the type.
past_boundary(type, amount) == amount >= BITS(type)

\* A variant that lets the amount stop at the bit-width instead of truncating it.
truncated_saturating(type, amount) == IF amount >= BITS(type) THEN BITS(type) ELSE amount

\* The wrapped shifts truncate the amount to the bit-width of the type.
truncated(type, amount) == amount % BITS(type)

\* The bits of value moved left, those moved out of the type dropped.
shl(type, value, amount) == wrap(type, value * 2^amount)

\* The bits of value moved right, the sign kept.
shr(type, value, amount) == value \div 2^amount

\* Operation::evaluate of the operations on two operands.  The integer
\* arithmetic is modelled for the 8-bit types.
evaluate_operation(opcode, inputs) ==
    LET first == inputs[1]
        second == inputs[2]
        type == first.type
    IN  IF Len(inputs) # 2 \/ ~output_type(opcode, <<first.type, second.type>>).ok
        THEN Err("halt: invalid instruction")
        ELSE CASE opcode = "is.eq" -> Ok(Boolean(first = second))
               [] opcode = "is.neq" -> Ok(Boolean(first # second))
               [] opcode = "add" /\ type = "field" ->
                      Ok(Field((first.value + second.value) % FieldModulus))
               [] opcode = "sub" /\ type = "field" ->
                      Ok(Field((first.value - second.value) % FieldModulus))
               [] opcode = "mul" /\ type = "field" ->
                      Ok(Field((first.value * second.value) % FieldModulus))
               [] opcode = "add" /\ type \in IntegerTypes -> checked(type, first.value + second.value)
               [] opcode = "sub" /\ type \in IntegerTypes -> checked(type, first.value - second.value)
               [] opcode = "mul" /\ type \in IntegerTypes -> checked(type, first.value * second.value)
               [] opcode = "add.w" -> wrapped(type, first.value + second.value)
               [] opcode = "sub.w" -> wrapped(type, first.value - second.value)
               [] opcode = "mul.w" -> wrapped(type, first.value * second.value)
               [] opcode = "shl" ->
                      IF past_boundary(type, second.value) THEN Err("halt: shift past boundary")
                      ELSE Ok(Integer(type, shl(type, first.value, second.value)))
               [] opcode = "shr" ->
                      IF past_boundary(type, second.value) THEN Err("halt: shift past boundary")
                      ELSE Ok(Integer(type, shr(type, first.value, second.value)))
               [] opcode = "shl.w" ->
                      Ok(Integer(type, shl(type, first.value, truncated(type, second.value))))
               [] opcode = "shr.w" ->
                      Ok(Integer(type, shr(type, first.value, truncated(type, second.value))))

\* A checked shl whose amount is below BITS but which shifts set bits out of
\* the type either halts or returns the truncated value: both are results
\* the operation may give.
loses_bits(inputs) ==
    /\ inputs[2].value < BITS(inputs[1].type)
    /\ wrap(inputs[1].type, inputs[1].value * 2^inputs[2].value) # inputs[1].value * 2^inputs[2].value

may_halt_on_lost_bits(opcode, inputs) ==
    /\ opcode = "shl"
    /\ evaluate_operation(opcode, inputs).ok
    /\ loses_bits(inputs)

\* --- the operands and type tuples tried ----------------------------------
I8Values == {-128, -100, -8, -1, 0, 1, 7, 8, 100, 127}

U8Values == {0, 1, 2, 7, 8, 9, 100, 128, 200, 255}

\* Shift amounts: below, at and above the width 8, in each magnitude type.
Amounts ==
    {Integer("u8", k) : k \in {0, 1, 7, 8, 9, 255}}
      \cup {Integer("u16", k) : k \in {0, 7, 8, 257}}
      \cup {Integer("u32", k) : k \in {1, 8, 65543}}

Shifted == {Integer("i8", n) : n \in I8Values} \cup {Integer("u8", n) : n \in U8Values}

Operands ==
    {<<Integer("i8", a), Integer("i8", b)>> : a, b \in I8Values}
      \cup {<<Integer("u8", a), Integer("u8", b)>> : a, b \in U8Values}
      \cup {<<a, k>> : a \in Shifted, k \in Amounts}
      \cup {<<Boolean(a), Boolean(b)>> : a, b \in BOOLEAN}
      \cup {<<Field(a), Field(b)>> : a, b \in {0, 1, FieldModulus - 1}}
      \cup {<<[type |-> t, value |-> a], [type |-> t, value |-> b]>> :
              t \in {"string", "address"}, a, b \in {1, 2}}
      \cup {<<Integer("i8", 1), Integer("u8", 1)>>, <<Field(1), Integer("u8", 1)>>}

EvaluatedOpcodes ==
    {"add", "add.w", "sub", "sub.w", "mul", "mul.w", "shl", "shl.w", "shr", "shr.w",
     "is.eq", "is.neq"}

TabledOpcodes == EvaluatedOpcodes \cup {"and", "or", "xor", "nand", "nor", "not"}

TypeTuples ==
    {<<t>> : t \in LiteralTypes} \cup {<<t, u>> : t, u \in LiteralTypes}

\* --- the operations as steps ----------------------------------------------
\* A call of Operation::evaluate or Operation::output_type, before and after
\* it returns.
Call(op, opcode, inputs, res) ==
    [op |-> op, arg |-> [opcode |-> opcode, inputs |-> inputs], res |-> res]

Return(result) ==
    /\ last.res = "pending"
    /\ outcome' = result
    /\ last' = [last EXCEPT !.res = "returned"]
    /\ UNCHANGED <<progVars, frames, runs>>

\* Operation::evaluate on native operands.
EvaluateOperation ==
    /\ last.op = "Operation::evaluate"
    /\ \/ Return(evaluate_operation(last.arg.opcode, last.arg.inputs))
       \/ /\ may_halt_on_lost_bits(last.arg.opcode, last.arg.inputs)
          /\ Return(Err("halt: shift overflow"))

\* Operation::output_type on input types.
OutputTypeOperation ==
    /\ last.op = "Operation::output_type"
    /\ Return(output_type(last.arg.opcode, last.arg.inputs))

\* The operation and its inputs are drawn from the sets above.
InitOperations ==
    /\ imports = <<>> /\ identifiers = <<>> /\ interfaces = <<>>
    /\ records = <<>> /\ closures = <<>> /\ functions = <<>>
    /\ StackIdle
    /\ \/ \E opcode \in EvaluatedOpcodes, inputs \in Operands :
            last = Call("Operation::evaluate", opcode, inputs, "pending")
       \/ \E opcode \in TabledOpcodes, types \in TypeTuples :
            last = Call("Operation::output_type", opcode, types, "pending")

NextOperations ==
    \/ EvaluateOperation
    \/ OutputTypeOperation

SpecOperations == InitOperations /\ [][NextOperations]_vars

\* The last step evaluated `opcode`.
Evaluated(opcode) ==
    last.op = "Operation::evaluate" /\ last.res = "returned" /\ last.arg.opcode = opcode

\* The last step evaluated an operation on two integers of one type.
OnIntegerPair ==
    /\ last.op = "Operation::evaluate"
    /\ Len(last.arg.inputs) = 2
    /\ last.arg.inputs[1].type \in IntegerTypes
    /\ last.arg.inputs[2].type = last.arg.inputs[1].type

\* The mathematical result of add, sub, mul on the integers a and b.
Exact(opcode, a, b) ==
    CASE opcode = "add" -> a + b
      [] opcode = "sub" -> a - b
      [] opcode = "mul" -> a * b

InRange(type, n) == MIN(type) <= n /\ n <= MAX(type)

\* C13: for add, sub and mul on two integers of one type: when the
\* mathematical result is outside the type the checked operation halts and
\* the .w operation returns the value of the type congruent to it modulo
\* 2^BITS; when it is inside the type both return it.  add on 200u8, 100u8
\* halts and add.w returns 44u8.
C13_CheckedHaltsWrappedWraps ==
    /\ \A opcode \in {"add", "sub", "mul"} :
          (Evaluated(opcode) /\ OnIntegerPair) =>
            LET inputs == last.arg.inputs
                type == inputs[1].type
                exact == Exact(opcode, inputs[1].value, inputs[2].value)
                wrapping == evaluate_operation(opcode \o ".w", inputs)
            IN  /\ wrapping.ok
                /\ wrapping.value.type = type
                /\ InRange(type, wrapping.value.value)
                /\ (wrapping.value.value - exact) % 2^BITS(type) = 0
                /\ outcome.ok = InRange(type, exact)
                /\ outcome.ok => outcome.value = Integer(type, exact) /\ Same(outcome, wrapping)
    /\ (Evaluated("add") /\ last.arg.inputs = <<Integer("u8", 200), Integer("u8", 100)>>) =>
          /\ ~outcome.ok
          /\ evaluate_operation("add.w", last.arg.inputs) = Ok(Integer("u8", 44))

\* add on 100i8, 100i8 has halted: the result 200 is outside i8, and add.w
\* gives -56i8.
C13_Witness ==
    /\ Evaluated("add")
    /\ last.arg.inputs = <<Integer("i8", 100), Integer("i8", 100)>>
    /\ ~outcome.ok
    /\ evaluate_operation("add.w", last.arg.inputs) = Ok(Integer("i8", -56))

\* The last step asked for the output type of `opcode`.
Typed(opcode) ==
    last.op = "Operation::output_type" /\ last.res = "returned" /\ last.arg.opcode = opcode

\* Boolean and the signed and unsigned integer types of width 8 to 128.
BitwiseTypes ==
    {"boolean", "i8", "i16", "i32", "i64", "i128", "u8", "u16", "u32", "u64", "u128"}

\* output_type of `opcode` succeeds on exactly the type tuples `legal`, and
\* returns the type of the first input.
AcceptsExactly(opcode, legal) ==
    Typed(opcode) =>
        /\ outcome.ok <=> last.arg.inputs \in legal
        /\ outcome.ok => outcome.value = last.arg.inputs[1]

\* C18 (as amended): and, or and xor accept (Boolean, Boolean) and (T, T) for
\* every integer type T and return that type; not accepts Boolean and every
\* integer type; nand and nor accept (Boolean, Boolean) only.  output_type
\* fails on every other tuple of input types.
C18_BitwiseSignatures ==
    /\ \A opcode \in {"and", "or", "xor"} :
          AcceptsExactly(opcode, {<<t, t>> : t \in BitwiseTypes})
    /\ \A opcode \in {"nand", "nor"} :
          AcceptsExactly(opcode, {<<"boolean", "boolean">>})
    /\ AcceptsExactly("not", {<<t>> : t \in BitwiseTypes})

\* output_type of nand has refused (U8, U8).
C18_Witness ==
    /\ Typed("nand")
    /\ last.arg.inputs = <<"u8", "u8">>
    /\ ~outcome.ok

\* C18 (as stated): nand and nor, like and, or and xor, accept (T, T) for
\* every integer type T.
C18_BitwiseSignaturesWithNandNor ==
    \A opcode \in {"and", "or", "xor", "nand", "nor"} :
        AcceptsExactly(opcode, {<<t, t>> : t \in BitwiseTypes})

OnShiftOperands ==
    /\ last.op = "Operation::evaluate"
    /\ Len(last.arg.inputs) = 2
    /\ last.arg.inputs[1].type \in IntegerTypes
    /\ last.arg.inputs[2].type \in {"u8", "u16", "u32"}

\* The value of `type` whose bits are those of `value` moved `amount` places
\* to the left (the bits moved out are dropped) or to the right.
ShiftedBy(opcode, type, value, amount) ==
    IF opcode \in {"shl", "shl.w"}
    THEN CHOOSE r \in MIN(type)..MAX(type) : (r - value * 2^amount) % 2^BITS(type) = 0
    ELSE value \div 2^amount

NoBitsLost(opcode, type, value, amount) ==
    IF opcode \in {"shl", "shl.w"}
    THEN InRange(type, value * 2^amount)
    ELSE value % 2^amount = 0

\* C20: shl and shr halt when the amount is the bit-width of the shifted
\* type or more; shl.w and shr.w never halt and shift by the amount modulo
\* the bit-width; when the amount is below the bit-width and no bits are lost
\* the checked shift returns what the wrapped shift returns.
C20_ShiftAmounts ==
    OnShiftOperands =>
        LET type == last.arg.inputs[1].type
            value == last.arg.inputs[1].value
            amount == last.arg.inputs[2].value
        IN  /\ \A opcode \in {"shl", "shr"} :
                  Evaluated(opcode) =>
                    /\ amount >= BITS(type) => ~outcome.ok
                    /\ (amount < BITS(type) /\ NoBitsLost(opcode, type, value, amount)) =>
                          /\ outcome.ok
                          /\ outcome.value = Integer(type, ShiftedBy(opcode, type, value, amount))
                          /\ Same(outcome, evaluate_operation(opcode \o ".w", last.arg.inputs))
            /\ \A opcode \in {"shl.w", "shr.w"} :
                  Evaluated(opcode) =>
                    /\ outcome.ok
                    /\ outcome.value = Integer(type, ShiftedBy(opcode, type, value, amount % BITS(type)))

\* shl.w of 1u8 by 257u16 has returned 2u8 (257 mod 8 = 1); shl halts on it.
C20_Witness ==
    /\ Evaluated("shl.w")
    /\ last.arg.inputs = <<Integer("u8", 1), Integer("u16", 257)>>
    /\ Same(outcome, Ok(Integer("u8", 2)))
    /\ ~evaluate_operation("shl", last.arg.inputs).ok

(***************************************************************************)
(* Instruction text: Instruction::parse, Instruction::from_str and the     *)
(* printed form.  A string is a sequence of tokens.                        *)
(***************************************************************************)

\* The largest number of opcode parsers handed to alt_parser!.
MaxParsers == 22

\* The opcodes in the order in which the instruction! macro declares them.
instruction_opcodes ==
    <<"abs", "abs.w", "add", "add.w", "and", "call", "cast", "div", "div.w",
      "double", "gt", "gte", "inv", "is.eq", "is.neq", "lt", "lte", "mul",
      "mul.w", "nand", "neg", "nor", "not", "or">>

Whitespace == {" ", "\n"}
Comments == {"// note"}
RegisterTokens == <<"r0", "r1", "r2", "r3">>

Drop(string, n) == SubSeq(string, n + 1, Len(string))

\* The number of leading tokens of the string that are in the set.
RECURSIVE Leading(_, _)
Leading(string, tokens) ==
    IF string # <<>> /\ Head(string) \in tokens
    THEN 1 + Leading(Tail(string), tokens)
    ELSE 0

Parsed(rest, value) == Ok([rest |-> rest, value |-> value])

\* Sanitizer::parse removes leading whitespace and comments.
Sanitizer_parse(string) ==
    Parsed(Drop(string, Leading(string, Whitespace \cup Comments)), <<>>)

\* A variant of Sanitizer::parse_whitespaces that removes comments as well.
Sanitizer_parse_whitespaces_and_comments(string) ==
    Parsed(Drop(string, Leading(string, Whitespace \cup Comments)), <<>>)

\* Sanitizer::parse_whitespaces removes leading whitespace only.
Sanitizer_parse_whitespaces(string) ==
    Parsed(Drop(string, Leading(string, Whitespace)), <<>>)

tag(token, string) ==
    IF string # <<>> /\ Head(string) = token
    THEN Parsed(Tail(string), token)
    ELSE Err("Tag")

\* A register token is parsed into its locator and printed from it.
Register_parse(string) ==
    IF string # <<>> /\ \E n \in 1..Len(RegisterTokens) : RegisterTokens[n] = Head(string)
    THEN Parsed(Tail(string),
                (CHOOSE n \in 1..Len(RegisterTokens) : RegisterTokens[n] = Head(string)) - 1)
    ELSE Err("Register")

Register_to_string(locator) == RegisterTokens[locator + 1]

\* The operands of an operation: each one follows whitespace.
RECURSIVE Operands_parse(_)
Operands_parse(string) ==
    LET spaces == Leading(string, Whitespace)
        register == Register_parse(Drop(string, spaces))
    IN  IF spaces > 0 /\ register.ok
        THEN LET more == Operands_parse(register.value.rest)
             IN  [rest |-> more.rest, value |-> <<register.value.value>> \o more.value]
        ELSE [rest |-> string, value |-> <<>>]

\* The parser of one opcode: a variant of Instruction and the opcode tokens
\* its parser accepts.
Parser(variant, tags) == [variant |-> variant, tags |-> tags]

\* $variant::parse followed by Into::into: the opcode, the operands, the
\* word into and the destination register.
variant_parse(parser, string) ==
    IF string = <<>> \/ Head(string) \notin parser.tags THEN Err("Tag") ELSE
    LET operands == Operands_parse(Tail(string))
        spaces == Leading(operands.rest, Whitespace)
        into == tag("into", Drop(operands.rest, spaces))
    IN  IF operands.value = <<>> \/ spaces = 0 \/ ~into.ok THEN Err("Operands") ELSE
        LET gap == Leading(into.value.rest, Whitespace)
            destination == Register_parse(Drop(into.value.rest, gap))
        IN  IF gap = 0 \/ ~destination.ok THEN Err("Destination") ELSE
            Parsed(destination.value.rest,
                   Instruction(parser.variant, "", operands.value,
                               <<destination.value.value>>))

\* nom's alt: the parsers are tried in the order of the tuple.
RECURSIVE alt(_, _)
alt(parsers, string) ==
    IF parsers = <<>> THEN Err("Alt") ELSE
    LET parsed == variant_parse(Head(parsers), string)
    IN  IF parsed.ok THEN parsed ELSE alt(Tail(parsers), string)

\* alt_parser!: up to 10 parsers make one alt; with more, the alt is made of
\* alt_parser! of the parsers after the tenth, followed by the first ten.
RECURSIVE alt_parser(_, _)
alt_parser(parsers, string) ==
    IF Len(parsers) <= 10 THEN alt(parsers, string) ELSE
    LET nested == alt_parser(SubSeq(parsers, 11, Len(parsers)), string)
    IN  IF nested.ok THEN nested ELSE alt(SubSeq(parsers, 1, 10), string)

\* Instruction::parse over the declared opcode parsers.
Instruction_parse(declared, string) ==
    LET sanitized == Sanitizer_parse(string)
        instruction == alt_parser(declared, sanitized.value.rest)
    IN  IF ~instruction.ok THEN instruction ELSE
        LET spaced == Sanitizer_parse_whitespaces(instruction.value.rest)
            semicolon == tag(";", spaced.value.rest)
        IN  IF ~semicolon.ok THEN semicolon ELSE
            Parsed(semicolon.value.rest, instruction.value.value)

\* Instruction::from_str.
from_str(declared, string) ==
    LET parsed == Instruction_parse(declared, string)
    IN  IF ~parsed.ok THEN Err("Failed to parse string") ELSE
        IF parsed.value.rest # <<>>
        THEN Err("Failed to parse string. Found invalid character")
        ELSE Ok(parsed.value.value)

RECURSIVE Operands_to_string(_)
Operands_to_string(operands) ==
    IF operands = <<>> THEN <<>>
    ELSE <<" ", Register_to_string(Head(operands))>> \o Operands_to_string(Tail(operands))

\* The printed form without the semicolon.
to_string_open(instruction) ==
    <<instruction.opcode>> \o Operands_to_string(instruction.operands)
        \o <<" ", "into", " ", Register_to_string(instruction.destinations[1])>>

\* A variant of Instruction::to_string that leaves the semicolon out.
to_string_without_semicolon(instruction) == to_string_open(instruction)

\* Instruction::to_string: "add r0 r1 into r2;".
to_string(instruction) == to_string_open(instruction) \o <<";">>

\* ---- The inputs that are tried ----

DeclaredNames(n) == SubSeq(instruction_opcodes, 1, n)

\* n declared parsers; the parser of opcode j also accepts the token of
\* opcode i (no parser accepts a second token when i = j).
Declared(n, i, j) ==
    [k \in 1..n |->
        Parser(instruction_opcodes[k],
               IF k = j THEN {instruction_opcodes[k], instruction_opcodes[i]}
               ELSE {instruction_opcodes[k]})]

ParserCounts == 1..(IF MaxParsers < Len(instruction_opcodes)
                    THEN MaxParsers ELSE Len(instruction_opcodes))

AllDeclared == Declared(Len(instruction_opcodes), 1, 1)

OperandLists == {<<0>>, <<0, 1>>, <<1, 0>>, <<3, 3, 2>>}

Instructions ==
    {Instruction(instruction_opcodes[k], "", operands, <<destination>>) :
        k \in 1..Len(instruction_opcodes), operands \in OperandLists,
        destination \in {2, 3}}

\* Texts around one instruction, well formed and not.
Texts ==
    {leading \o body \o middle \o semicolon \o trailing :
        leading \in {<<>>, <<" ">>, <<"// note", "\n", " ">>},
        body \in {<<"add", " ", "r0", " ", "r1", " ", "into", " ", "r2">>,
                  <<"neg", "\n", "r1", " ", " ", "into", " ", "r3">>,
                  <<"bogus", " ", "r0", " ", "into", " ", "r2">>,
                  <<"add", " ", "r0", " ", "r1">>,
                  <<>>},
        middle \in {<<>>, <<" ", "\n">>, <<"// note">>},
        semicolon \in {<<>>, <<";">>},
        trailing \in {<<>>, <<" ">>, <<"add">>, <<";">>}}

ParseCall(op, declared, input, res) ==
    [op |-> op, arg |-> [declared |-> declared, input |-> input], res |-> res]

\* Instruction::parse on a string.
ParseInstruction ==
    /\ last.op = "Instruction::parse"
    /\ Return(Instruction_parse(last.arg.declared, last.arg.input))

\* Instruction::from_str on a string.
FromStr ==
    /\ last.op = "Instruction::from_str"
    /\ Return(from_str(last.arg.declared, last.arg.input))

\* Instruction::to_string on an instruction.
PrintInstruction ==
    /\ last.op = "Instruction::to_string"
    /\ Return(Ok(to_string(last.arg.input)))

InitParse ==
    /\ imports = <<>> /\ identifiers = <<>> /\ interfaces = <<>>
    /\ records = <<>> /\ closures = <<>> /\ functions = <<>>
    /\ StackIdle
    /\ \/ \E n \in ParserCounts : \E i \in 1..n, j \in 1..n :
            last = ParseCall("Instruction::parse", Declared(n, i, j),
                             to_string(Instruction(instruction_opcodes[i], "", <<0, 1>>, <<2>>)),
                             "pending")
       \/ \E op \in {"Instruction::parse", "Instruction::from_str"}, string \in Texts :
            last = ParseCall(op, AllDeclared, string, "pending")
       \/ \E x \in Instructions :
            last = ParseCall("Instruction::to_string", AllDeclared, x, "pending")

NextParse ==
    \/ ParseInstruction
    \/ FromStr
    \/ PrintInstruction

SpecParse == InitParse /\ [][NextParse]_vars

(***************************************************************************)
(* Claims about the instruction text.                                      *)
(***************************************************************************)

ParseReturned(op) == last.op = op /\ last.res = "returned"

\* The declared parsers that accept the instruction at the start of the string.
Accepting(declared, string) ==
    {k \in DOMAIN declared :
        variant_parse(declared[k], Sanitizer_parse(string).value.rest).ok}

Earliest(indices) == CHOOSE k \in indices : \A other \in indices : k <= other

Squeeze(string) == SelectSeq(string, LAMBDA token : token \notin Whitespace)

RegisterSet == {RegisterTokens[n] : n \in 1..Len(RegisterTokens)}
OpcodeSet == {instruction_opcodes[n] : n \in 1..Len(instruction_opcodes)}

\* One instruction: an opcode, one or more registers, the word into and a
\* register, with whitespace between neighbours and nowhere else.
IsInstruction(body) ==
    LET words == Squeeze(body)
    IN  /\ Len(words) >= 4
        /\ Len(body) >= 2 * Len(words) - 1
        /\ body[1] \notin Whitespace /\ body[Len(body)] \notin Whitespace
        /\ \A k \in 1..(Len(body) - 1) :
              body[k] \in Whitespace \/ body[k + 1] \in Whitespace
        /\ words[1] \in OpcodeSet
        /\ \A k \in 2..(Len(words) - 2) : words[k] \in RegisterSet
        /\ words[Len(words) - 1] = "into"
        /\ words[Len(words)] \in RegisterSet

\* Optional whitespace and comments, one instruction, optional whitespace
\* and the semicolon.
IsInstructionText(string) ==
    /\ string # <<>>
    /\ string[Len(string)] = ";"
    /\ \E a \in 0..Len(string), b \in 0..(Len(string) - 1) :
          /\ a < b
          /\ \A k \in 1..a : string[k] \in Whitespace \cup Comments
          /\ IsInstruction(SubSeq(string, a + 1, b))
          /\ \A k \in (b + 1)..(Len(string) - 1) : string[k] \in Whitespace

IsInstructionTextThen(string, rest) ==
    \E p \in 1..Len(string) :
        IsInstructionText(SubSeq(string, 1, p)) /\ rest = Drop(string, p)

HasInstructionText(string) ==
    \E p \in 1..Len(string) : IsInstructionText(SubSeq(string, 1, p))

\* C22: Instruction::parse succeeds exactly on optional whitespace and
\* comments, one instruction, optional whitespace and a semicolon, and
\* returns what follows the semicolon; Instruction::from_str returns an
\* instruction exactly when nothing follows, and an error otherwise (input
\* after the semicolon, no semicolon, or no opcode that matches).
C22_ParseAcceptsOneTerminatedInstruction ==
    /\ ParseReturned("Instruction::parse") =>
          /\ outcome.ok => IsInstructionTextThen(last.arg.input, outcome.value.rest)
          /\ HasInstructionText(last.arg.input) => outcome.ok
    /\ ParseReturned("Instruction::from_str") =>
          (outcome.ok <=> IsInstructionText(last.arg.input))

\* from_str has refused an instruction followed by more input, and parse
\* has accepted a text with whitespace and a comment in front.
C22_Witness ==
    /\ ParseReturned("Instruction::from_str")
    /\ last.arg.input = <<" ", "add", " ", "r0", " ", "r1", " ", "into", " ", "r2", ";", "add">>
    /\ ~outcome.ok
    /\ Instruction_parse(last.arg.declared, last.arg.input).ok

\* ---- C23 ----

Unambiguous(declared) == \A k \in DOMAIN declared : declared[k].tags = {declared[k].variant}

Canonical(string) == \E x \in Instructions : to_string(x) = string

MaxByte == 2
MaxBuffer == 5

\* Identifier::write_le: the length in one byte, then the characters.
Identifier_write_le(identifier) == <<Len(identifier)>> \o identifier

\* Identifier::read_le.
Identifier_read_le(reader) ==
    IF reader = <<>> THEN Err("unexpected end of file") ELSE
    IF Head(reader) = 0 THEN Err("identifier is empty") ELSE
    IF Len(reader) < 1 + Head(reader) THEN Err("unexpected end of file") ELSE
    Parsed(Drop(reader, 1 + Head(reader)), SubSeq(reader, 2, 1 + Head(reader)))

\* u8::read_le.
u8_read_le(reader) ==
    IF reader = <<>> THEN Err("unexpected end of file")
    ELSE Parsed(Tail(reader), Head(reader))

ProgramID(name, network) == [name |-> name, network |-> network]

\* A variant of read_le that takes every variant byte but 0 as 1.
read_le_any_variant(reader) ==
    LET name == Identifier_read_le(reader) IN
    IF ~name.ok THEN name ELSE
    LET variant == u8_read_le(name.value.rest) IN
    IF ~variant.ok THEN variant ELSE
    IF variant.value.value = 0
    THEN Parsed(variant.value.rest, ProgramID(name.value.value, None)) ELSE
    LET network == Identifier_read_le(variant.value.rest) IN
    IF ~network.ok THEN network ELSE
    Parsed(network.value.rest, ProgramID(name.value.value, Some(network.value.value)))

\* ProgramID::read_le.
read_le(reader) ==
    LET name == Identifier_read_le(reader) IN
    IF ~name.ok THEN name ELSE
    LET variant == u8_read_le(name.value.rest) IN
    IF ~variant.ok THEN variant ELSE
    IF variant.value.value = 0
    THEN Parsed(variant.value.rest, ProgramID(name.value.value, None)) ELSE
    IF variant.value.value = 1
    THEN LET network == Identifier_read_le(variant.value.rest) IN
         IF ~network.ok THEN network ELSE
         Parsed(network.value.rest,
                ProgramID(name.value.value, Some(network.value.value)))
    ELSE Err("Failed to parse program ID. Invalid variant")

\* ProgramID::write_le.
write_le(id) ==
    Identifier_write_le(id.name) \o
        (IF id.network = None THEN <<0>>
         ELSE <<1>> \o Identifier_write_le(id.network[1]))

\* ---- The buffers and ids that are tried ----

Bytes == 0..MaxByte

IdentifierBytes == {<<1>>, <<0, 2>>, <<2, 1>>}

ProgramIDs ==
    {ProgramID(name, network) :
        name \in IdentifierBytes,
        network \in {None} \cup {Some(identifier) : identifier \in IdentifierBytes}}

RECURSIVE Buffers(_)
Buffers(length) ==
    IF length = 0 THEN {<<>>}
    ELSE LET shorter == Buffers(length - 1)
         IN  shorter \cup {Append(buffer, byte) :
                              buffer \in {b \in shorter : Len(b) = length - 1},
                              byte \in Bytes}

BytesCall(op, input, res) == [op |-> op, arg |-> [input |-> input], res |-> res]

\* id.write_le(writer): the bytes written.
WriteProgramID ==
    /\ last.op = "ProgramID::write_le"
    /\ Return(Ok(write_le(last.arg.input)))

\* ProgramID::read_le(reader).
ReadProgramID ==
    /\ last.op = "ProgramID::read_le"
    /\ Return(read_le(last.arg.input))

InitBytes ==
    /\ imports = <<>> /\ identifiers = <<>> /\ interfaces = <<>>
    /\ records = <<>> /\ closures = <<>> /\ functions = <<>>
    /\ StackIdle
    /\ \/ \E id \in ProgramIDs :
            last = BytesCall("ProgramID::write_le", id, "pending")
       \/ \E reader \in Buffers(MaxBuffer) \cup {write_le(id) : id \in ProgramIDs} :
            last = BytesCall("ProgramID::read_le", reader, "pending")

NextBytes ==
    \/ WriteProgramID
    \/ ReadProgramID

SpecBytes == InitBytes /\ [][NextBytes]_vars

\* C24: write_le gives the name, then the byte 0 for an id without network
\* and the byte 1 and the network otherwise; read_le of these bytes gives the
\* id back and leaves nothing; read_le of a name followed by any other byte
\* is an error.
C24_ProgramIDBytes ==
    /\ ParseReturned("ProgramID::write_le") =>
          LET id == last.arg.input
              name == Identifier_write_le(id.name)
              read == read_le(outcome.value)
          IN  /\ SubSeq(outcome.value, 1, Len(name)) = name
              /\ id.network = None => Drop(outcome.value, Len(name)) = <<0>>
              /\ id.network # None =>
                    Drop(outcome.value, Len(name)) = <<1>> \o Identifier_write_le(id.network[1])
              /\ read.ok /\ read.value.rest = <<>> /\ read.value.value = id
    /\ ParseReturned("ProgramID::read_le") =>
          LET name == Identifier_read_le(last.arg.input)
          IN  /\ (name.ok /\ name.value.rest # <<>> /\ Head(name.value.rest) \notin {0, 1})
                    => ~outcome.ok
              /\ outcome.ok =>
                    last.arg.input = write_le(outcome.value.value) \o outcome.value.rest

\* An id with a network has been written as name, 1, network.
C24_Witness ==
    /\ ParseReturned("ProgramID::write_le")
    /\ last.arg.input = ProgramID(<<2, 1>>, Some(<<1>>))
    /\ outcome.value = <<2, 2, 1, 1, 1, 1>>

(***************************************************************************)
(* AVMFile: a program's bytes in a file with the extension avm.  A         *)
(* directory maps the paths of its files to their bytes.                   *)
(***************************************************************************)

AVM_FILE_EXTENSION == "avm"

Path(stem, extension) == [stem |-> stem, extension |-> extension]

\* A program as the file layer sees it: its declared name and its body.
FileProgram(name, body) == [name |-> name, body |-> body]

\* Program::to_bytes_le: a version, the name and the body.
to_bytes_le(program) == <<"version 0", program.name, program.body>>

\* Program::from_bytes_le.
from_bytes_le(bytes) ==
    IF Len(bytes) = 3 /\ bytes[1] = "version 0"
    THEN Ok(FileProgram(bytes[2], bytes[3]))
    ELSE Err("Invalid program bytes")

\* AVMFile::check_path: a file, with the extension avm.
check_path(directory, path) ==
    IF path \notin DOMAIN directory THEN Err("The path is not a file.") ELSE
    IF path.extension = "" THEN Err("File extension not found.") ELSE
    IF path.extension # AVM_FILE_EXTENSION THEN Err("File extension is incorrect.") ELSE
    Ok(<<>>)

\* path.file_stem().
file_stem(path) == path.stem

AVMFile(file_name, program) == [file_name |-> file_name, program |-> program]

\* AVMFile::from_path.
from_path(directory, path) ==
    LET path_checked == check_path(directory, path) IN
    IF ~path_checked.ok THEN path_checked ELSE
    LET program == from_bytes_le(directory[path]) IN
    IF ~program.ok THEN program ELSE
    Ok(AVMFile(file_stem(path), program.value))

\* AVMFile::write_to: the directory after the call.
write_to(self, directory, path) ==
    LET path_checked == check_path(directory, path) IN
    IF ~path_checked.ok THEN path_checked ELSE
    IF file_stem(path) # self.file_name THEN Err("File name does not match.") ELSE
    Ok([directory EXCEPT ![path] = to_bytes_le(self.program)])

\* ---- The files that are tried ----

FilePrograms ==
    {FileProgram(name, body) :
        name \in {"token", "other", "credits"}, body \in {"function compute", "function mint"}}

Paths == {Path(stem, extension) : stem \in {"token", "other"}, extension \in {"avm", "aleo", ""}}

FileBytes == {to_bytes_le(program) : program \in FilePrograms}
                \cup {<<"version 1", "token", "function compute">>}

\* The directories with at most one file.
Directories ==
    {<<>>} \cup {[path \in {at} |-> bytes] : at \in Paths, bytes \in FileBytes}

FileCall(op, self, directory, path, res) ==
    [op |-> op, arg |-> [self |-> self, directory |-> directory, path |-> path], res |-> res]

\* AVMFile::from_path(path).
FromPath ==
    /\ last.op = "AVMFile::from_path"
    /\ Return(from_path(last.arg.directory, last.arg.path))

\* file.write_to(path).
WriteTo ==
    /\ last.op = "AVMFile::write_to"
    /\ Return(write_to(last.arg.self, last.arg.directory, last.arg.path))

InitFile ==
    /\ imports = <<>> /\ identifiers = <<>> /\ interfaces = <<>>
    /\ records = <<>> /\ closures = <<>> /\ functions = <<>>
    /\ StackIdle
    /\ \E directory \in Directories, path \in Paths :
          \/ last = FileCall("AVMFile::from_path", <<>>, directory, path, "pending")
          \/ \E program \in FilePrograms :
                last = FileCall("AVMFile::write_to", AVMFile(program.name, program),
                                directory, path, "pending")

NextFile ==
    \/ FromPath
    \/ WriteTo

SpecFile == InitFile /\ [][NextFile]_vars

\* C25 (as stated): from_path returns an error for a file whose stem is not
\* the name of the program in the file, and on success the program it
\* returns is the program whose bytes are in the file.
C25_StemIsProgramName ==
    ParseReturned("AVMFile::from_path") =>
        /\ (/\ last.arg.path \in DOMAIN last.arg.directory
            /\ from_bytes_le(last.arg.directory[last.arg.path]).ok
            /\ from_bytes_le(last.arg.directory[last.arg.path]).value.name
                 # file_stem(last.arg.path))
              => ~outcome.ok
        /\ outcome.ok =>
              to_bytes_le(outcome.value.program) = last.arg.directory[last.arg.path]

(***************************************************************************)
(* The order of the checks on a name, and imports among the definitions.   *)
(***************************************************************************)

\* A variant of name_checks with the keyword check before the opcode check.
name_checks_keyword_first(name) ==
    IF ~is_unique_name(name) THEN <<"already in use">>
    ELSE IF is_reserved_keyword(name) THEN <<"already in use", "reserved keyword">>
    ELSE <<"already in use", "reserved keyword", "reserved opcode">>

\* The ensure! statements on the name that an add_* call evaluates, in the
\* order of the source, up to the first that fails.
name_checks(name) ==
    IF ~is_unique_name(name) THEN <<"already in use">>
    ELSE IF is_reserved_opcode(name) THEN <<"already in use", "reserved opcode">>
    ELSE <<"already in use", "reserved opcode", "reserved keyword">>

NamingErrors == {"already in use", "reserved opcode", "reserved keyword"}

Violates(rule, name) ==
    \/ rule = "already in use" /\ ~is_unique_name(name)
    \/ rule = "reserved opcode" /\ is_reserved_opcode(name)
    \/ rule = "reserved keyword" /\ is_reserved_keyword(name)

RECURSIVE FirstViolated(_, _)
FirstViolated(order, name) ==
    IF order = <<>> THEN "none"
    ELSE IF Violates(Head(order), name) THEN Head(order)
    ELSE FirstViolated(Tail(order), name)

UpTo(order, rule) == SubSeq(order, 1, CHOOSE k \in 1..Len(order) : order[k] = rule)

AddedName == IF last.op = "add_import" THEN last.arg.id.name ELSE last.arg.name

\* A failed add_* call leaves the Program as it was, so the rules are read
\* on the state in which the call was made.
ChecksInOrder(order) ==
    /\ (/\ last.op \in AddOps
        /\ last.res \notin {"ok", "only one record type"}
        /\ FirstViolated(order, AddedName) # "none")
          => last.res = FirstViolated(order, AddedName)
    /\ (last.op \in AddOps /\ last.res \in NamingErrors)
          => name_checks(AddedName) = UpTo(order, last.res)

DefinitionNames ==
    Keys(interfaces) \cup Keys(records) \cup Keys(closures) \cup Keys(functions)

ImportNames == {id.name : id \in Keys(imports)}

\* C29 (as stated): no import has the name of an interface, record, closure
\* or function of the Program, and of an import and a definition with the
\* same name the one added second is rejected, whichever it is.
C29_ImportNamesApartFromDefinitions ==
    /\ [](ImportNames \cap DefinitionNames = {})
    /\ [][(last'.op \in AddDefinitionOps /\ last'.arg.name \in ImportNames)
            => last'.res # "ok"]_vars
    /\ [][(last'.op = "add_import" /\ last'.arg.id.name \in DefinitionNames)
            => last'.res # "ok"]_vars

\* ---- C30 ----

KindOf(name) == get(identifiers, name)

\* C30: a name is registered in identifiers with a kind exactly when it is
\* a key of the map of that kind, identifiers has as many entries as the
\* four maps together, and an add_import call changes none of the five.
C30_IdentifiersAgreeWithTypedMaps ==
    /\ [](/\ \A name \in Names :
               /\ KindOf(name) = Some("Interface") <=> name \in Keys(interfaces)
               /\ KindOf(name) = Some("Record") <=> name \in Keys(records)
               /\ KindOf(name) = Some("Closure") <=> name \in Keys(closures)
               /\ KindOf(name) = Some("Function") <=> name \in Keys(functions)
          /\ Keys(identifiers) \subseteq Names
          /\ Len(identifiers) =
               Len(interfaces) + Len(records) + Len(closures) + Len(functions))
    /\ [][last'.op = "add_import"
            => UNCHANGED <<identifiers, interfaces, records, closures, functions>>]_vars

\* An import has been added to a Program that holds a definition.
C30_Witness ==
    /\ last.op = "add_import"
    /\ last.res = "ok"
    /\ Len(identifiers) >= 1
    /\ Len(interfaces) + Len(records) + Len(closures) + Len(functions) = Len(identifiers)
    /\ contains_key(imports, last.arg.id)

(***************************************************************************)
(* The Groth16 prover: create_proof and its pool of jobs.  The frame of    *)
(* create_proof holds its position, the pool and the results; a value of   *)
(* a group is kept as the name of the computation that gives it.           *)
(***************************************************************************)

\* The largest scalar tried for r and s.
MaxScalar == 2

\* enum ResultWrapper.
from_g1(g) == [variant |-> "G1", value |-> g]
from_g2(g) == [variant |-> "G2", value |-> g]

into_g1(wrapper) ==
    IF wrapper.variant = "G1" THEN Ok(wrapper.value)
    ELSE Err("panic: could not unwrap g2 into g1")

into_g2(wrapper) ==
    IF wrapper.variant = "G2" THEN Ok(wrapper.value)
    ELSE Err("panic: could not unwrap g1 into g2")

\* results[index]: a Vec is indexed from 0, and an index past the end panics.
result_at(results, index) ==
    IF index < Len(results) THEN Ok(results[index + 1])
    ELSE Err("panic: index out of bounds")

\* A job of the pool, and what its closure returns.
Job(name) == [name |-> name, done |-> FALSE]

job_result(name) ==
    CASE name = "B in G1" -> from_g1("b_g1")
      [] name = "B in G2" -> from_g2("b_g2")
      [] name = "H" -> from_g1("h_acc")
      [] name = "L aux" -> from_g1("l_aux_acc")

ProverFrame(pc, pool, results) == [pc |-> pc, pool |-> pool, results |-> results]

Proving == frames # <<>> /\ last.op \in {"create_proof", "create_proof_no_zk"}

At(pc) == Proving /\ frames[1].pc = pc

Goto(pc, pool, results) ==
    /\ frames' = <<ProverFrame(pc, pool, results)>>
    /\ UNCHANGED <<progVars, last, outcome, runs>>

\* if r != 0 { pool.add_job(B in G1) }
add_job_b_g1 ==
    /\ At("Compute B in G1")
    /\ Goto("Compute B in G2",
            IF last.arg.r # 0 THEN Append(frames[1].pool, Job("B in G1"))
            ELSE frames[1].pool,
            <<>>)

\* pool.add_job(B in G2)
add_job_b_g2 ==
    /\ At("Compute B in G2")
    /\ Goto("Compute C: H", Append(frames[1].pool, Job("B in G2")), <<>>)

\* pool.add_job(H)
add_job_h ==
    /\ At("Compute C: H")
    /\ Goto("Compute C: L aux", Append(frames[1].pool, Job("H")), <<>>)

\* pool.add_job(L aux)
add_job_l_aux ==
    /\ At("Compute C: L aux")
    /\ Goto("execute_all", Append(frames[1].pool, Job("L aux")), <<>>)

\* A worker of the pool runs one of the jobs.
run_job ==
    /\ At("execute_all")
    /\ \E k \in 1..Len(frames[1].pool) :
          /\ ~frames[1].pool[k].done
          /\ Goto("execute_all", [frames[1].pool EXCEPT ![k].done = TRUE], <<>>)

\* pool.execute_all() returns the results of the jobs, in the order in which
\* the jobs were added, once every job has run.
execute_all ==
    /\ At("execute_all")
    /\ \A k \in 1..Len(frames[1].pool) : frames[1].pool[k].done
    /\ Goto("assemble", frames[1].pool,
            [k \in 1..Len(frames[1].pool) |-> job_result(frames[1].pool[k].name)])

Proof(a, b, g1_b, l_aux_acc, h_acc) ==
    [a |-> a, b |-> b, c |-> [g1_b |-> g1_b, l_aux_acc |-> l_aux_acc, h_acc |-> h_acc]]

\* What the four reads of results[..] give: the first panic, or the proof.
assembled(r, results) ==
    LET r0 == result_at(results, 0)
        g1_b == IF r # 0 THEN (IF r0.ok THEN into_g1(r0.value) ELSE r0) ELSE Ok("zero")
        r1 == result_at(results, 1)
        g2_b == IF r1.ok THEN into_g2(r1.value) ELSE r1
        r2 == result_at(results, 2)
        h_acc == IF r2.ok THEN into_g1(r2.value) ELSE r2
        r3 == result_at(results, 3)
        l_aux_acc == IF r3.ok THEN into_g1(r3.value) ELSE r3
    IN  IF ~g1_b.ok THEN g1_b
        ELSE IF ~g2_b.ok THEN g2_b
        ELSE IF ~h_acc.ok THEN h_acc
        ELSE IF ~l_aux_acc.ok THEN l_aux_acc
        ELSE Ok(Proof("g_a", g2_b.value, g1_b.value, l_aux_acc.value, h_acc.value))

\* The proof is put together from the results, or create_proof panics.
assemble ==
    /\ At("assemble")
    /\ frames' = <<>>
    /\ outcome' = assembled(last.arg.r, frames[1].results)
    /\ last' = [last EXCEPT !.res = IF assembled(last.arg.r, frames[1].results).ok
                                    THEN "returned" ELSE "panicked"]
    /\ UNCHANGED <<progVars, runs>>

Scalars == 0..MaxScalar

ProverCall(op, r, s) == [op |-> op, arg |-> [r |-> r, s |-> s], res |-> "pending"]

\* create_proof has computed A and made the pool; create_proof_no_zk is
\* create_proof with r = s = 0.
InitProver ==
    /\ imports = <<>> /\ identifiers = <<>> /\ interfaces = <<>>
    /\ records = <<>> /\ closures = <<>> /\ functions = <<>>
    /\ outcome = [ok |-> TRUE, value |-> <<>>]
    /\ runs = <<>>
    /\ frames = <<ProverFrame("Compute B in G1", <<>>, <<>>)>>
    /\ \/ \E r \in Scalars, s \in Scalars : last = ProverCall("create_proof", r, s)
       \/ last = ProverCall("create_proof_no_zk", 0, 0)

NextProver ==
    \/ add_job_b_g1
    \/ add_job_b_g2
    \/ add_job_h
    \/ add_job_l_aux
    \/ run_job
    \/ execute_all
    \/ assemble

SpecProver == InitProver /\ [][NextProver]_vars

JobNames(pool) == {pool[k].name : k \in 1..Len(pool)}

\* C27 (as stated): every job added to the pool has run when the proof is
\* put together; create_proof returns a proof, with or without the job of
\* B in G1, and in it B in G2, the sum over H and the sum over L aux are the
\* results of the jobs that computed them and B in G1 is the result of its
\* job when r is not 0.
C27_ProofFromTheJobsResults ==
    /\ At("assemble") =>
          /\ \A k \in 1..Len(frames[1].pool) : frames[1].pool[k].done
          /\ Len(frames[1].results) = Len(frames[1].pool)
    /\ (last.op \in {"create_proof", "create_proof_no_zk"} /\ last.res # "pending") =>
          /\ last.res = "returned"
          /\ outcome.ok
          /\ outcome.value.b = "b_g2"
          /\ outcome.value.c.h_acc = "h_acc"
          /\ outcome.value.c.l_aux_acc = "l_aux_acc"
          /\ outcome.value.c.g1_b = IF last.arg.r # 0 THEN "b_g1" ELSE "zero"

(***************************************************************************)
(* Request::verify.  A u64 is kept as the set of the positions of its 1    *)
(* bits, so that its 64 bits are exact; a hash is kept as the record of    *)
(* what was hashed.                                                        *)
(***************************************************************************)

U64_BITS == 64

\* The u64 with 1 bits at the positions `ones`.
U64(ones) == ones

\* to_bits_le of a u64: the 64 bits, least significant first.
to_bits_le(balance) == [i \in 1..U64_BITS |-> (i - 1) \in balance]

\* Value::Plaintext and Value::Record.
PlaintextValue(plaintext) ==
    [kind |-> "Plaintext", plaintext |-> plaintext, owner |-> "", balance |-> U64({})]
RecordValue(owner, balance) ==
    [kind |-> "Record", plaintext |-> "", owner |-> owner, balance |-> balance]

\* The hash of an input (of its ciphertext under the view key of the index
\* for a private input), and the serial number of a record at an index.
Hashed(algorithm, input, index) == [algorithm |-> algorithm, of |-> input, index |-> index]

input_hash(input) == Hashed("bhp1024", input, 0 - 1)
private_input_hash(input, index) == Hashed("bhp1024 of ciphertext", input, index)
serial_number(record, index) == Hashed("serial number", record, index)

\* InputID::Constant / Public / Private / Record.
InputID(kind, hash) == [kind |-> kind, hash |-> hash]

\* The bits of the balance from position 52 on are all 0.
balance_is_valid(balance) == \A i \in 53..U64_BITS : ~to_bits_le(balance)[i]

\* The check of one input against its id: "ok", or the error.
check_input(caller, index, input_id, input) ==
    IF input_id.kind \in {"Constant", "Public"} THEN
        IF input.kind # "Plaintext" THEN "Expected a plaintext input"
        ELSE IF input_id.hash # input_hash(input) THEN "Expected an input with the same hash"
        ELSE "ok"
    ELSE IF input_id.kind = "Private" THEN
        IF input.kind # "Plaintext" THEN "Expected a plaintext input"
        ELSE IF input_id.hash # private_input_hash(input, index)
             THEN "Expected a private input with the same commitment"
        ELSE "ok"
    ELSE
        IF input.kind # "Record" THEN "Expected a record input, found a plaintext input"
        ELSE IF input.owner # caller THEN "Input record does not belong to the caller"
        ELSE IF ~balance_is_valid(input.balance)
             THEN "Input record contains an invalid balance"
        ELSE IF input_id.hash # serial_number(input, index)
             THEN "Expected a record input with the same serial number"
        ELSE "ok"

\* The signature message: tvk, the function id and what each input adds.
message_of(input_ids) == <<"tvk", "function_id">> \o [i \in 1..Len(input_ids) |-> input_ids[i].hash]

RequestSignature(signer, message) == [signer |-> signer, message |-> message]

Signature_verify(signature, address, message) ==
    signature.signer = address /\ signature.message = message

Request(caller, input_ids, inputs, signature) ==
    [caller |-> caller, input_ids |-> input_ids, inputs |-> inputs, signature |-> signature]

\* Request::verify.
verify(request) ==
    IF \E i \in 1..Len(request.input_ids) :
          check_input(request.caller, i - 1, request.input_ids[i], request.inputs[i]) # "ok"
    THEN FALSE
    ELSE Signature_verify(request.signature, request.caller, message_of(request.input_ids))

\* ---- The requests that are tried ----

\* 0, 5, 2^51, 2^52 - 1, 2^52, 2^52 + 1, 2^63 and 2^64 - 1.
Balances ==
    {U64({}), U64({0, 2}), U64({51}), U64(0..51), U64({52}), U64({0, 52}),
     U64({63}), U64(0..(U64_BITS - 1))}

Addresses == {"aleo1caller", "aleo1other"}

InputValues ==
    {PlaintextValue(p) : p \in {"{ token_amount: 9876543210u128 }", "{ token_amount: 1u128 }"}}
        \cup {RecordValue(owner, balance) : owner \in Addresses, balance \in Balances}

\* The ids of an input at an index: of each kind, for the input itself or
\* for another value.
InputIDs(input, index) ==
    {InputID(kind, input_hash(of)) :
        kind \in {"Constant", "Public"}, of \in {input, PlaintextValue("{ token_amount: 2u128 }")}}
    \cup {InputID("Private", private_input_hash(of, index)) :
            of \in {input, PlaintextValue("{ token_amount: 2u128 }")}}
    \cup {InputID("Record", serial_number(of, index)) :
            of \in {input, RecordValue("aleo1caller", U64({1}))}}

test_input == PlaintextValue("{ token_amount: 9876543210u128 }")

\* Requests of the caller with one input, or with the constant input of the
\* test followed by one input; signed by the caller or by someone else.
Requests ==
    {Request("aleo1caller", leading.ids \o <<input_id>>, leading.inputs \o <<input>>,
             RequestSignature(signer, message_of(leading.ids \o <<input_id>>))) :
        leading \in {[ids |-> <<>>, inputs |-> <<>>],
                     [ids |-> <<InputID("Constant", input_hash(test_input))>>,
                      inputs |-> <<test_input>>]},
        input \in InputValues,
        input_id \in UNION {InputIDs(i, index) : i \in InputValues, index \in {0, 1}},
        signer \in Addresses}

VerifyCall(request) == [op |-> "Request::verify", arg |-> [request |-> request], res |-> "pending"]

\* request.verify().
VerifyRequest ==
    /\ last.op = "Request::verify"
    /\ Return(Ok(verify(last.arg.request)))

InitRequest ==
    /\ imports = <<>> /\ identifiers = <<>> /\ interfaces = <<>>
    /\ records = <<>> /\ closures = <<>> /\ functions = <<>>
    /\ StackIdle
    /\ \E request \in Requests : last = VerifyCall(request)

NextRequest == VerifyRequest

SpecRequest == InitRequest /\ [][NextRequest]_vars

\* The balance is at most 2^52: no 1 bit from position 52 on, or 2^52 itself.
AtMost2Pow52(balance) == (\A bit \in balance : bit < 52) \/ balance = {52}

KindsAgree(input_id, input) ==
    IF input_id.kind = "Record" THEN input.kind = "Record" ELSE input.kind = "Plaintext"

ExpectedHash(input_id, input, index) ==
    CASE input_id.kind = "Private" -> private_input_hash(input, index)
      [] input_id.kind = "Record" -> serial_number(input, index)
      [] OTHER -> input_hash(input)

Positions(request) == 1..Len(request.inputs)

RecordPositions(request) == {i \in Positions(request) : request.inputs[i].kind = "Record"}

\* Everything that verify looks at, the balances aside, is in order.
ValidButForBalances(request) ==
    /\ \A i \in Positions(request) :
          /\ KindsAgree(request.input_ids[i], request.inputs[i])
          /\ request.input_ids[i].hash
                = ExpectedHash(request.input_ids[i], request.inputs[i], i - 1)
    /\ \A i \in RecordPositions(request) : request.inputs[i].owner = request.caller
    /\ Signature_verify(request.signature, request.caller, message_of(request.input_ids))

\* C28 (as stated): a request that is in order otherwise is accepted by
\* verify exactly when the balance of every record input is at most 2^52
\* (2^52 itself passes); verify returns false when a record input is not
\* owned by the caller or when the kind of an input is not that of its id.
C28_BalanceAtMost2Pow52 ==
    ParseReturned("Request::verify") =>
        LET request == last.arg.request
        IN  /\ ValidButForBalances(request) =>
                  (outcome.value <=>
                      \A i \in RecordPositions(request) : AtMost2Pow52(request.inputs[i].balance))
            /\ (\E i \in RecordPositions(request) : request.inputs[i].owner # request.caller)
                  => ~outcome.value
            /\ (\E i \in Positions(request) :
                    ~KindsAgree(request.input_ids[i], request.inputs[i]))
                  => ~outcome.value

====
